---- MODULE Spec2Model ----
(***************************************************************************)
(* Deployment and funding orchestration of the NIL contract action         *)
(* provider (src/src/action-providers/nil-contract/schemas.ts) and of the  *)
(* supply-chain deployment script (src/src/scripts/deploy-supply-chain.ts).*)
(*                                                                         *)
(* Each awaited collaborator call (ledger client, faucet, smart account)   *)
(* is one step whose outcome - a returned value or a raised error - is     *)
(* chosen by the environment.                                              *)
(***************************************************************************)
EXTENDS Integers, Sequences, FiniteSets, TLC

\* ---------------------------------------------------------------- bounds
\* largest gas price the ledger reports in the model
MaxGas == 1

\* most results recorded for one derivation request
MaxDerivations == 2

\* most recipients of one batch transfer
MaxRecipients == 3

\* most actions the agent invokes in one session of the account provider
MaxRequests == 3
\* collaborator calls followed in each of two concurrent deployContract requests
MaxLogFirst == 10
MaxLogSecond == 11

\* Math.random() is sampled as k / SampleDen, k up to MaxNumerator or the
\* last fraction below 1
SampleDen == 1000
MaxNumerator == 11

\* ------------------------------------------------------ program constants
\* schemas.ts:143  Math.floor(Math.random() * 10000)
SaltLimit == 10000
\* part_010:81  Math.random() * 10000000000, the square of this
ScriptSaltRoot == 100000
\* schemas.ts:1045  shardId: z.number().default(1)
ExecShardId == 1
\* part_002:191, 196  BigInt("5000000000000000"), in units of 10^15
CreateMinBalance == 5
\* part_002:339  const minRequiredBalance = BigInt(1000000)
MintMinBalance == 1000000
\* part_002:346  amount: BigInt(5000000)
MintTopUpAmount == 5000000
\* schemas.ts:417  const shardCount = 4
shardCount == 4
\* variant: one attempt more
CodeAttemptsOneMore == 30 + 1

\* schemas.ts:1336  for (let attempt = 1; attempt <= 30; attempt++)
MaxCodeAttempts == 30
\* schemas.ts:1346  Math.min(5 + attempt, 30)
MaxWaitSeconds == 30
\* schemas.ts:344  const feeCredit = 1_000_000n * gasPrice
InternalGasMultiplier == 1000000
\* schemas.ts:283  params.feeCredit * 3n
FundingFactor == 3
\* deploy-supply-chain.ts:190  while (retailerRetries < 10 && !isRetailerDeployed)
ChainCodeRetries == 10
\* part_000:406  while (verificationAttempts < 10 && !isVerified)
MaxVerificationAttempts == 10
\* deploy-supply-chain.ts:11-12
RETAILER_SHARD_ID == 1
MANUFACTURER_SHARD_ID == 1

ContractTypes == {"COUNTER", "TOKEN", "NFT"}
\* shard ids a request may carry: the edges of the valid range 1..shardCount
ShardInputs == {0, 1, shardCount, shardCount + 1}
GasPrices == 0..MaxGas
\* marks a local that holds no value yet
NoValue == 0 - 1

VARIABLES
  args,            \* the request: contractType, shardId, useInternalDeployment
  pc,              \* position of deployContract and of the helpers it awaits
  path,            \* the strategy being executed: "none", "internal", "external"
  gasPrice,        \* deployContract: gasPrice (line 441)
  feeCredit,       \* deployContract: feeCredit (line 457)
  intFeeCredit,    \* deployContractInternal: feeCredit (line 344)
  requiredAmount,  \* ensureAdequateFunding: requiredAmount
  i,               \* ensureAdequateFunding: loop index
  lastBalance,     \* value of the most recent balance read, NoValue if none
  fundingSuccess,  \* result of ensureAdequateFunding: "none", "true", "false"
  hash,            \* hash of the submitted deployment transaction
  contractAddress, \* address of the deployment
  attempt,         \* waitForContractDeployment: attempt
  isDeployed,      \* result of waitForContractDeployment: "none", "true", "false"
  result,          \* what deployContract returned (or threw)
  log              \* history: the collaborator calls made, in order

VARIABLES
  cpc,                   \* position of the supply-chain script's main
  retailerFeeCredit,     \* main: retailerFeeCredit (line 152)
  retailerAddress,       \* main: retailerAddress (line 165)
  retailerHash,          \* main: retailerHash (line 166)
  retailerRetries,       \* main: retailerRetries
  isRetailerDeployed,    \* main: isRetailerDeployed
  manufacturerArgs,      \* constructor arguments of the Manufacturer deployment
  manufacturerFeeCredit, \* main: manufacturerFeeCredit (line 241)
  manufacturerAddress,   \* main: manufacturerAddress (line 258)
  manufacturerHash,      \* main: manufacturerHash (line 259)
  manufacturerRetries,   \* main: manufacturerRetries
  isManufacturerDeployed,\* main: isManufacturerDeployed
  manifest,              \* the deployment info written at line 325, or none
  retailerCodeSeen,      \* history: a code read at retailerAddress returned code bytes
  manufacturerCodeSeen,  \* history: a code read at manufacturerAddress returned code bytes
  clog                   \* history: the collaborator calls of main, in order

VARIABLES
  sreq,      \* a derivation request: operation, salt, bytecode, shard, chain id
  clients,   \* the provider's client cache (this.clients): the shards it holds
  derived    \* history: the results of the request's operation, in order

VARIABLES
  areq,                 \* a request to an action of the account or supply-chain provider
  apc,                  \* position of that action
  ares,                 \* what the action returned (or threw)
  constructorArgs,      \* deployManufacturerContract: args given to deployContract
  verificationAttempts, \* deployManufacturerContract: verificationAttempts
  isVerified,           \* deployManufacturerContract: isVerified
  successCount,         \* batchTransferTokens: successCount
  failCount,            \* batchTransferTokens: failCount
  results,              \* batchTransferTokens: results, one entry per recipient handled
  alog                  \* history: the collaborator calls of the action, in order

VARIABLES
  saltSource,  \* the place that draws a salt: a generateRandomSalt or a script line
  saltSample,  \* what the random source gave to that draw
  saltDrawn    \* the salt drawn, NoSalt before the draw

avars == <<areq, apc, ares, constructorArgs, verificationAttempts, isVerified,
           successCount, failCount, results, alog>>

VARIABLES
  clientMap,  \* the account provider's this.clients: entries of shard and client
  created,    \* number of PublicClient objects constructed so far
  returned    \* what the latest getClient call of the running action returned

VARIABLES
  treq,               \* the action the agent invoked on the account provider
  tpc,                \* position of that action, "idle" between actions
  tres,               \* what the latest action returned
  accounts,           \* the account provider's this.accounts
  privateKey,         \* the account provider's this.privateKey
  account,            \* the action's smartAccount or sourceAccount
  deploymentSuccess,  \* createSmartAccount: deploymentSuccess
  served,             \* number of actions invoked so far
  tlog                \* history: the collaborator calls of the running action

gvars == <<saltSource, saltSample, saltDrawn>>

kvars == <<clientMap, created, returned>>

pvars == <<treq, tpc, tres, accounts, privateKey, account, deploymentSuccess,
           served, tlog>>

VARIABLES
  other,  \* the locals of the deployContract request that waits at an await
  cur     \* which of two concurrent requests is running, 0 when there is one

qvars == <<other, cur>>

tvars == <<gvars, kvars, pvars, qvars>>

svars == <<sreq, clients, derived, avars, tvars>>

cvars == <<cpc, retailerFeeCredit, retailerAddress, retailerHash, retailerRetries, isRetailerDeployed,
           manufacturerArgs, manufacturerFeeCredit, manufacturerAddress,
           manufacturerHash, manufacturerRetries, isManufacturerDeployed,
           manifest, retailerCodeSeen, manufacturerCodeSeen, clog>>

dvars == <<args, pc, path, gasPrice, feeCredit, intFeeCredit, requiredAmount, i,
           lastBalance, fundingSuccess, hash, contractAddress, attempt,
           isDeployed, result, log>>

\* ------------------------------------------------------------ pure helpers
Min(a, b) == IF a < b THEN a ELSE b

Ev(e, p, r, v) == [ev |-> e, path |-> p, ref |-> r, val |-> v]

\* values a code read can return: nothing, a hex string, a byte array
Code(t, s, n) == [t |-> t, s |-> s, n |-> n]
CodeSamples ==
  { Code("null", "", 0), Code("string", "", 0), Code("string", "0x", 0),
    Code("string", "0x60", 1), Code("bytes", "", 0), Code("bytes", "", 1) }

\* number of bytes of contract code a returned value stands for
CodeBytes(code) == code.n

\* variant: only a missing value counts as empty
isEmptyCodeLax(code) == code.t = "null"

\* schemas.ts:116-121
isEmptyCode(code) ==
  IF code.t = "null" THEN TRUE
  ELSE IF code.t = "bytes" THEN code.n = 0
  ELSE IF code.t = "string" THEN (code.s = "0x" \/ code.s = "")
  ELSE TRUE

\* schemas.ts:452-455 (bigint arithmetic: / truncates)
contractComplexityMultiplier(contractType) ==
  IF contractType = "TOKEN" THEN 2
  ELSE IF contractType = "NFT" THEN (5 * 10) \div 20
  ELSE (12 * 10) \div 10

\* variant: a fourth, quarter-sized attempt
attemptsLonger(required) ==
  << required * 2, required, required \div 2, required \div 4 >>

\* variant: the smallest amount is requested first
attemptsAscending(required) == << required \div 2, required, required * 2 >>

\* schemas.ts:211-215
attempts(required) == << required * 2, required, required \div 2 >>

\* variant: half of the requirement is accepted
FundingSufficientHalf(balance, required) == balance * 2 >= required

\* variant: the requirement itself is not enough
FundingSufficientStrict(balance, required) == balance > required

\* schemas.ts:201 and 234
FundingSufficient(balance, required) == balance >= required

\* balances the ledger may report for an address: either side of the requirement
BalanceSamples(required) ==
  {required} \cup (IF required > 0 THEN {required - 1} ELSE {})

NoResult == [kind |-> "none", label |-> "none", hash |-> "", address |-> ""]
Result(k, l, h, a) == [kind |-> k, label |-> l, hash |-> h, address |-> a]

InitDeploy ==
  /\ args \in [contractType : ContractTypes, shardId : ShardInputs,
               useInternalDeployment : BOOLEAN]
  /\ pc = "validate"
  /\ path = "none"
  /\ gasPrice = NoValue
  /\ feeCredit = NoValue
  /\ intFeeCredit = NoValue
  /\ requiredAmount = NoValue
  /\ i = 0
  /\ lastBalance = NoValue
  /\ fundingSuccess = "none"
  /\ hash = ""
  /\ contractAddress = ""
  /\ attempt = 0
  /\ isDeployed = "none"
  /\ result = NoResult
  /\ log = << >>

\* schemas.ts:590-596: the outer catch rethrows as ContractDeploymentError
Throw ==
  /\ pc' = "done"
  /\ result' = Result("thrown", "none", "", "")

\* variant: the upper edge of the range is not checked
shardOutOfRangeLow(shardId) == shardId < 1

\* schemas.ts:421
shardOutOfRange(shardId) == shardId < 1 \/ shardId > shardCount

\* schemas.ts:412-425: the client is taken (and stored in this.clients when
\* the shard had none) before the shard id is checked
ValidateShard ==
  /\ pc = "validate"
  /\ clients' = clients \cup {args.shardId}
  /\ IF shardOutOfRange(args.shardId)
       THEN /\ pc' = "done"
            /\ result' = Result("shard_unavailable", "none", "", "")
       ELSE /\ pc' = "shard_gas"
            /\ UNCHANGED result
  /\ UNCHANGED <<args, path, gasPrice, feeCredit, intFeeCredit, requiredAmount, i,
                 lastBalance, fundingSuccess, hash, contractAddress, attempt,
                 isDeployed, log>>
  /\ UNCHANGED <<cvars, sreq, derived, avars, tvars>>

\* schemas.ts:427-439: a raised error is caught and the deployment continues
CheckShardActive ==
  /\ pc = "shard_gas"
  /\ \/ /\ pc' = "gas"                       \* getGasPrice raised (line 436)
        /\ log' = Append(log, Ev("gasPriceError", "none", "check", 0))
        /\ UNCHANGED result
     \/ \E g \in GasPrices :
          /\ log' = Append(log, Ev("gasPrice", "none", "check", 0))
          /\ IF g = 0
               THEN /\ pc' = "done"          \* !gasPrice (line 429)
                    /\ result' = Result("shard_inactive", "none", "", "")
               ELSE /\ pc' = "gas"
                    /\ UNCHANGED result
  /\ UNCHANGED <<args, path, gasPrice, feeCredit, intFeeCredit, requiredAmount, i,
                 lastBalance, fundingSuccess, hash, contractAddress, attempt,
                 isDeployed>>
  /\ UNCHANGED <<cvars, svars>>

\* variant: a failed query is swallowed and the price taken as zero
GetGasPriceDefaulted ==
  /\ pc = "gas"
  /\ \/ /\ gasPrice' = 0
        /\ pc' = "chain"
        /\ log' = Append(log, Ev("gasPriceError", "none", "price", 0))
     \/ \E g \in GasPrices :
          /\ log' = Append(log, Ev("gasPrice", "none", "price", 0))
          /\ gasPrice' = g
          /\ pc' = "chain"
  /\ UNCHANGED <<args, path, feeCredit, intFeeCredit, requiredAmount, i,
                 lastBalance, fundingSuccess, hash, contractAddress, attempt,
                 isDeployed, result>>
  /\ UNCHANGED <<cvars, svars>>

\* schemas.ts:441
GetGasPrice ==
  /\ pc = "gas"
  /\ \/ /\ Throw
        /\ log' = Append(log, Ev("gasPriceError", "none", "price", 0))
        /\ UNCHANGED gasPrice
     \/ \E g \in GasPrices :
          /\ log' = Append(log, Ev("gasPrice", "none", "price", 0))
          /\ gasPrice' = g
          /\ pc' = "chain"
          /\ UNCHANGED result
  /\ UNCHANGED <<args, path, feeCredit, intFeeCredit, requiredAmount, i,
                 lastBalance, fundingSuccess, hash, contractAddress, attempt,
                 isDeployed>>
  /\ UNCHANGED <<cvars, svars>>

\* schemas.ts:442-495: chain id, fee credit, choice of the strategy
GetChainId ==
  /\ pc = "chain"
  /\ log' = Append(log, Ev("chainId", "none", "", 0))
  /\ \/ Throw /\ UNCHANGED <<feeCredit, path>>
     \/ /\ feeCredit' = contractComplexityMultiplier(args.contractType) * gasPrice
        /\ IF args.useInternalDeployment
             THEN pc' = "int_gas" /\ path' = "internal"
             ELSE pc' = "ext_start" /\ path' = "external"
        /\ UNCHANGED result
  /\ UNCHANGED <<args, gasPrice, intFeeCredit, requiredAmount, i,
                 lastBalance, fundingSuccess, hash, contractAddress, attempt,
                 isDeployed>>
  /\ UNCHANGED <<cvars, svars>>

\* ------------------------------------------------- deployContractInternal
\* variant: the catch gives up instead of continuing with the external path
FallbackGivesUp(l) ==
  /\ pc' = "done"
  /\ path' = path
  /\ log' = Append(l, Ev("fallback", "internal", "", 0))

\* schemas.ts:379-382 rethrows, schemas.ts:538-540 catches: fall back to external
Fallback(l) ==
  /\ pc' = "ext_start"
  /\ path' = "external"
  /\ log' = Append(l, Ev("fallback", "internal", "", 0))

\* schemas.ts:319 and 344
IntGetGasPrice ==
  /\ pc = "int_gas"
  /\ \/ Fallback(Append(log, Ev("gasPriceError", "internal", "", 0))) /\ UNCHANGED intFeeCredit
     \/ \E g \in GasPrices :
          /\ intFeeCredit' = InternalGasMultiplier * g
          /\ pc' = "int_account"
          /\ log' = Append(log, Ev("gasPrice", "internal", "", 0))
          /\ UNCHANGED path
  /\ UNCHANGED <<args, gasPrice, feeCredit, requiredAmount, i, lastBalance,
                 fundingSuccess, hash, contractAddress, attempt, isDeployed, result>>
  /\ UNCHANGED <<cvars, svars>>

\* schemas.ts:330-334
IntGenerateSmartAccount ==
  /\ pc = "int_account"
  /\ \/ Fallback(log)
     \/ /\ pc' = "int_balance"
        /\ log' = Append(log, Ev("createAccount", "internal", "deployer", 0))
        /\ UNCHANGED path
  /\ UNCHANGED <<args, gasPrice, feeCredit, intFeeCredit, requiredAmount, i,
                 lastBalance, fundingSuccess, hash, contractAddress, attempt,
                 isDeployed, result>>
  /\ UNCHANGED <<cvars, svars>>

\* schemas.ts:339-340: the balance is read and logged, never compared
IntGetBalance ==
  /\ pc = "int_balance"
  /\ \/ Fallback(log) /\ UNCHANGED lastBalance
     \/ \E b \in BalanceSamples(intFeeCredit) :
          /\ lastBalance' = b
          /\ pc' = "int_init_wait"
          /\ log' = Append(log, Ev("balance", "internal", "deployer", b))
          /\ UNCHANGED path
  /\ UNCHANGED <<args, gasPrice, feeCredit, intFeeCredit, requiredAmount, i,
                 fundingSuccess, hash, contractAddress, attempt, isDeployed, result>>
  /\ UNCHANGED <<cvars, svars>>

\* schemas.ts:349
IntInitWait ==
  /\ pc = "int_init_wait"
  /\ pc' = "int_deploy"
  /\ log' = Append(log, Ev("sleep", "internal", "", 5))
  /\ UNCHANGED <<args, path, gasPrice, feeCredit, intFeeCredit, requiredAmount, i,
                 lastBalance, fundingSuccess, hash, contractAddress, attempt,
                 isDeployed, result>>
  /\ UNCHANGED <<cvars, svars>>

\* schemas.ts:353-360: the smart account submits the deployment
IntDeployContract ==
  /\ pc = "int_deploy"
  /\ \/ Fallback(log) /\ UNCHANGED <<hash, contractAddress>>
     \/ /\ hash' = "hInt"
        /\ contractAddress' = "aInt"
        /\ pc' = "int_topup"
        /\ log' = Append(log, Ev("submit", "internal", "hInt", 0))
        /\ UNCHANGED path
  /\ UNCHANGED <<args, gasPrice, feeCredit, intFeeCredit, requiredAmount, i,
                 lastBalance, fundingSuccess, attempt, isDeployed, result>>
  /\ UNCHANGED <<cvars, svars>>

\* schemas.ts:367-373: the contract address is funded after the submission
IntTopUp ==
  /\ pc = "int_topup"
  /\ \/ Fallback(Append(log, Ev("faucet", "internal", contractAddress, intFeeCredit * 2)))
     \/ /\ pc' = "int_settle"
        /\ log' = Append(log, Ev("faucet", "internal", contractAddress, intFeeCredit * 2))
        /\ UNCHANGED path
  /\ UNCHANGED <<args, gasPrice, feeCredit, intFeeCredit, requiredAmount, i,
                 lastBalance, fundingSuccess, hash, contractAddress, attempt,
                 isDeployed, result>>
  /\ UNCHANGED <<cvars, svars>>

\* variant: the settle pause can raise and hand the request to the catch
IntSettleRaises ==
  /\ pc = "int_settle"
  /\ \/ Fallback(Append(log, Ev("sleep", "internal", "", 5)))
     \/ /\ pc' = "wait_completed"
        /\ log' = Append(log, Ev("sleep", "internal", "", 5))
        /\ UNCHANGED path
  /\ UNCHANGED <<args, gasPrice, feeCredit, intFeeCredit, requiredAmount, i,
                 lastBalance, fundingSuccess, hash, contractAddress, attempt,
                 isDeployed, result>>
  /\ UNCHANGED <<cvars, svars>>

\* schemas.ts:376-378, 497-505
IntSettle ==
  /\ pc = "int_settle"
  /\ pc' = "wait_completed"
  /\ log' = Append(log, Ev("sleep", "internal", "", 5))
  /\ UNCHANGED <<args, path, gasPrice, feeCredit, intFeeCredit, requiredAmount, i,
                 lastBalance, fundingSuccess, hash, contractAddress, attempt,
                 isDeployed, result>>
  /\ UNCHANGED <<cvars, svars>>

\* ------------------------------------------------- deployContractExternal
\* schemas.ts:267-277: the transaction externalDeploymentTransaction builds; to
\* is its destination address (written as the hex text of line 279), hash the
\* hash its send returns (line 303)
deploymentTransaction == [to |-> "aExt", hash |-> "hExt"]

\* variant: the external path keeps the address it found in the request
ExtPrepareKeepsAddress ==
  /\ pc = "ext_start"
  /\ hash' = ""
  /\ requiredAmount' = feeCredit * FundingFactor
  /\ i' = 0
  /\ fundingSuccess' = "none"
  /\ pc' = "eaf_balance"
  /\ log' = Append(log, Ev("externalCall", "external", "aExt", 0))
  /\ UNCHANGED <<args, path, contractAddress, gasPrice, feeCredit, intFeeCredit,
                 lastBalance, attempt, isDeployed, result>>
  /\ UNCHANGED <<cvars, svars>>

\* schemas.ts:544, 262-284: salt, deployment transaction, derived address,
\* required funding; then ensureAdequateFunding is entered (line 287)
ExtPrepare ==
  /\ pc = "ext_start"
  /\ contractAddress' = deploymentTransaction.to
  /\ hash' = ""
  /\ requiredAmount' = feeCredit * FundingFactor
  /\ i' = 0
  /\ fundingSuccess' = "none"
  /\ pc' = "eaf_balance"
  /\ log' = Append(log, Ev("externalCall", "external", deploymentTransaction.to, 0))
  /\ UNCHANGED <<args, path, gasPrice, feeCredit, intFeeCredit, lastBalance,
                 attempt, isDeployed, result>>
  /\ UNCHANGED <<cvars, svars>>

\* --------------------------------------------------- ensureAdequateFunding
\* schemas.ts:247 and 293-295: the schedule is used up, or the loop goes on
EafNextAttempt(k) ==
  IF k < Len(attempts(requiredAmount))
    THEN pc' = "eaf_topup" /\ UNCHANGED fundingSuccess
    ELSE pc' = "ext_funded" /\ fundingSuccess' = "false"

\* schemas.ts:198-204, 248-251
EafInitialBalance ==
  /\ pc = "eaf_balance"
  /\ \/ /\ fundingSuccess' = "false"           \* the read raised (line 248)
        /\ pc' = "ext_funded"
        /\ log' = Append(log, Ev("balanceError", path, contractAddress, 0))
        /\ UNCHANGED lastBalance
     \/ \E b \in BalanceSamples(requiredAmount) :
          /\ lastBalance' = b
          /\ log' = Append(log, Ev("balance", path, contractAddress, b))
          /\ IF FundingSufficient(b, requiredAmount)
               THEN fundingSuccess' = "true" /\ pc' = "ext_funded"
               ELSE EafNextAttempt(0)
  /\ i' = 0
  /\ UNCHANGED <<args, path, gasPrice, feeCredit, intFeeCredit, requiredAmount,
                 hash, contractAddress, attempt, isDeployed, result>>
  /\ UNCHANGED <<cvars, svars>>

\* variant: a rejected faucet request leaves ensureAdequateFunding as an error
EafTopUpRaises ==
  /\ pc = "eaf_topup"
  /\ log' = Append(log, Ev("faucet", path, contractAddress, attempts(requiredAmount)[i + 1]))
  /\ \/ /\ Throw
        /\ UNCHANGED <<i, fundingSuccess>>
     \/ /\ pc' = "eaf_recheck"
        /\ UNCHANGED <<i, fundingSuccess, result>>
  /\ UNCHANGED <<args, path, gasPrice, feeCredit, intFeeCredit, requiredAmount,
                 lastBalance, hash, contractAddress, attempt, isDeployed>>
  /\ UNCHANGED <<cvars, svars>>

\* schemas.ts:217-228, 241-244: a rejected request consumes the attempt
EafTopUp ==
  /\ pc = "eaf_topup"
  /\ log' = Append(log, Ev("faucet", path, contractAddress, attempts(requiredAmount)[i + 1]))
  /\ \/ /\ i' = i + 1                           \* topUp raised
        /\ EafNextAttempt(i + 1)
     \/ /\ pc' = "eaf_recheck"
        /\ UNCHANGED <<i, fundingSuccess>>
  /\ UNCHANGED <<args, path, gasPrice, feeCredit, intFeeCredit, requiredAmount,
                 lastBalance, hash, contractAddress, attempt, isDeployed, result>>
  /\ UNCHANGED <<cvars, svars>>

\* variant: a sufficient re-check is not taken as success
EafRecheckGoesOn ==
  /\ pc = "eaf_recheck"
  /\ \/ /\ i' = i + 1
        /\ EafNextAttempt(i + 1)
        /\ log' = Append(log, Ev("balanceError", path, contractAddress, 0))
        /\ UNCHANGED lastBalance
     \/ \E b \in BalanceSamples(requiredAmount) :
          /\ lastBalance' = b
          /\ log' = Append(log, Ev("balance", path, contractAddress, b))
          /\ pc' = "eaf_delay" /\ UNCHANGED fundingSuccess
          /\ UNCHANGED i
  /\ UNCHANGED <<args, path, gasPrice, feeCredit, intFeeCredit, requiredAmount,
                 hash, contractAddress, attempt, isDeployed, result>>
  /\ UNCHANGED <<cvars, svars>>

\* schemas.ts:231-237, 241-244
EafRecheck ==
  /\ pc = "eaf_recheck"
  /\ \/ /\ i' = i + 1                           \* the read raised
        /\ EafNextAttempt(i + 1)
        /\ log' = Append(log, Ev("balanceError", path, contractAddress, 0))
        /\ UNCHANGED lastBalance
     \/ \E b \in BalanceSamples(requiredAmount) :
          /\ lastBalance' = b
          /\ log' = Append(log, Ev("balance", path, contractAddress, b))
          /\ IF FundingSufficient(b, requiredAmount)
               THEN fundingSuccess' = "true" /\ pc' = "ext_funded"
               ELSE pc' = "eaf_delay" /\ UNCHANGED fundingSuccess
          /\ UNCHANGED i
  /\ UNCHANGED <<args, path, gasPrice, feeCredit, intFeeCredit, requiredAmount,
                 hash, contractAddress, attempt, isDeployed, result>>
  /\ UNCHANGED <<cvars, svars>>

\* schemas.ts:240, then the loop's i++
EafDelay ==
  /\ pc = "eaf_delay"
  /\ log' = Append(log, Ev("sleep", path, "", 2))
  /\ i' = i + 1
  /\ EafNextAttempt(i + 1)
  /\ UNCHANGED <<args, path, gasPrice, feeCredit, intFeeCredit, requiredAmount,
                 lastBalance, hash, contractAddress, attempt, isDeployed, result>>
  /\ UNCHANGED <<cvars, svars>>

\* variant: the result of ensureAdequateFunding is ignored
ExtAfterFundingUnchecked ==
  /\ pc = "ext_funded"
  /\ pc' = "ext_send"
  /\ log' = Append(log, Ev("sleep", path, "", 5))
  /\ UNCHANGED <<args, path, gasPrice, feeCredit, intFeeCredit, requiredAmount, i,
                 lastBalance, fundingSuccess, hash, contractAddress, attempt,
                 isDeployed, result>>
  /\ UNCHANGED <<cvars, svars>>

\* schemas.ts:293-299
ExtAfterFunding ==
  /\ pc = "ext_funded"
  /\ IF fundingSuccess = "true"
       THEN /\ pc' = "ext_send"
            /\ log' = Append(log, Ev("sleep", path, "", 5))
            /\ UNCHANGED result
       ELSE /\ Throw
            /\ UNCHANGED log
  /\ UNCHANGED <<args, path, gasPrice, feeCredit, intFeeCredit, requiredAmount, i,
                 lastBalance, fundingSuccess, hash, contractAddress, attempt,
                 isDeployed>>
  /\ UNCHANGED <<cvars, svars>>

\* variant: the transaction is built but never sent
ExtSendSkipped ==
  /\ pc = "ext_send"
  /\ hash' = "hExt"
  /\ pc' = "wait_completed"
  /\ UNCHANGED <<args, path, gasPrice, feeCredit, intFeeCredit, requiredAmount, i,
                 lastBalance, fundingSuccess, contractAddress, attempt, isDeployed,
                 result, log>>
  /\ UNCHANGED <<cvars, svars>>

\* variant: a rejected submission starts the external path again
ExtSendAgain ==
  /\ pc = "ext_send"
  /\ \/ /\ pc' = "ext_start"
        /\ log' = Append(log, Ev("sendError", path, "", 0))
        /\ UNCHANGED <<hash, result>>
     \/ /\ hash' = "hExt"
        /\ pc' = "wait_completed"
        /\ log' = Append(log, Ev("submit", path, "hExt", 0))
        /\ UNCHANGED result
  /\ UNCHANGED <<args, path, gasPrice, feeCredit, intFeeCredit, requiredAmount, i,
                 lastBalance, fundingSuccess, contractAddress, attempt, isDeployed>>
  /\ UNCHANGED <<cvars, svars>>

\* schemas.ts:303-306, 544-553
ExtSend ==
  /\ pc = "ext_send"
  /\ \/ /\ Throw
        /\ log' = Append(log, Ev("sendError", path, "", 0))
        /\ UNCHANGED hash
     \/ /\ hash' = deploymentTransaction.hash
        /\ pc' = "wait_completed"
        /\ log' = Append(log, Ev("submit", path, deploymentTransaction.hash, 0))
        /\ UNCHANGED result
  /\ UNCHANGED <<args, path, gasPrice, feeCredit, intFeeCredit, requiredAmount, i,
                 lastBalance, fundingSuccess, contractAddress, attempt, isDeployed>>
  /\ UNCHANGED <<cvars, svars>>

\* ----------------------------------------------- waitForContractDeployment
ReceiptStatuses == {"null", "InsufficientFunds", "Failed", "Success"}

\* variant: the wait grows without a cap
waitTimeUncapped(k) == 5 + k

\* schemas.ts:1346
waitTime(k) == Min(5 + k, MaxWaitSeconds)

\* variant: the label follows the request's flag, not the path that ran
ReportForRequested(strategy, deployed, h, a) ==
  IF deployed = "true"
    THEN Result("success",
                IF args.useInternalDeployment THEN "internal" ELSE "external", h, a)
    ELSE IF strategy = "internal"
      THEN Result("verification_timed_out", "none", h, a)
      ELSE Result("funding_issues", "none", h, a)

\* schemas.ts:506-536 (internal) and 554-588 (external): the text returned
ReportFor(strategy, deployed, h, a) ==
  IF deployed = "true"
    THEN Result("success", strategy, h, a)
    ELSE IF strategy = "internal"
      THEN Result("verification_timed_out", "none", h, a)
      ELSE Result("funding_issues", "none", h, a)

\* variant: a not-confirmed outcome leaves waitForContractDeployment as an error
WaitRaises(deployed) ==
  IF deployed = "true"
    THEN /\ isDeployed' = deployed
         /\ result' = ReportFor(path, deployed, hash, contractAddress)
         /\ pc' = "done"
    ELSE /\ UNCHANGED isDeployed
         /\ Throw

\* schemas.ts:1317-1357: waitForContractDeployment returns (every error inside
\* it makes it return false); schemas.ts:505-536 and 553-588: deployContract
\* returns the text for that answer
WaitReturn(deployed) ==
  /\ isDeployed' = deployed
  /\ result' = ReportFor(path, deployed, hash, contractAddress)
  /\ pc' = "done"

\* schemas.ts:1308
WaitTillCompleted ==
  /\ pc = "wait_completed"
  /\ attempt' = 0
  /\ \/ /\ WaitReturn("false")
        /\ log' = Append(log, Ev("waitError", path, hash, 0))
     \/ /\ pc' = "wait_receipt"
        /\ log' = Append(log, Ev("waitCompleted", path, hash, 0))
        /\ UNCHANGED <<isDeployed, result>>
  /\ UNCHANGED <<args, path, gasPrice, feeCredit, intFeeCredit, requiredAmount, i,
                 lastBalance, fundingSuccess, hash, contractAddress>>
  /\ UNCHANGED <<cvars, svars>>

\* schemas.ts:1312-1336
GetReceipt ==
  /\ pc = "wait_receipt"
  /\ \/ /\ WaitReturn("false")
        /\ log' = Append(log, Ev("receiptError", path, hash, 0))
        /\ UNCHANGED attempt
     \/ \E status \in ReceiptStatuses :
          /\ log' = Append(log, Ev("receipt", path, hash, status))
          /\ IF status = "Success"
               THEN pc' = "wait_code" /\ attempt' = 1 /\ UNCHANGED <<isDeployed, result>>
               ELSE WaitReturn("false") /\ UNCHANGED attempt
  /\ UNCHANGED <<args, path, gasPrice, feeCredit, intFeeCredit, requiredAmount, i,
                 lastBalance, fundingSuccess, hash, contractAddress>>
  /\ UNCHANGED <<cvars, svars>>

\* schemas.ts:1336-1345, 1352-1353
GetCode ==
  /\ pc = "wait_code"
  /\ attempt <= MaxCodeAttempts
  /\ \/ /\ WaitReturn("false")                  \* getCode raised (line 1354)
        /\ log' = Append(log, Ev("codeError", path, contractAddress, 0))
        /\ UNCHANGED attempt
     \/ \E code \in CodeSamples :
          /\ log' = Append(log, Ev("code", path, contractAddress, CodeBytes(code)))
          /\ IF ~isEmptyCode(code)
               THEN WaitReturn("true") /\ UNCHANGED attempt
               ELSE IF attempt < MaxCodeAttempts
                 THEN pc' = "wait_sleep" /\ UNCHANGED <<attempt, isDeployed, result>>
                 ELSE WaitReturn("false") /\ attempt' = attempt + 1
  /\ UNCHANGED <<args, path, gasPrice, feeCredit, intFeeCredit, requiredAmount, i,
                 lastBalance, fundingSuccess, hash, contractAddress>>
  /\ UNCHANGED <<cvars, svars>>

\* schemas.ts:1346-1348, then the loop's attempt++
WaitSleep ==
  /\ pc = "wait_sleep"
  /\ log' = Append(log, Ev("sleep", path, "", waitTime(attempt)))
  /\ attempt' = attempt + 1
  /\ pc' = "wait_code"
  /\ UNCHANGED <<args, path, gasPrice, feeCredit, intFeeCredit, requiredAmount, i,
                 lastBalance, fundingSuccess, hash, contractAddress, isDeployed,
                 result>>
  /\ UNCHANGED <<cvars, svars>>

\* ======================================== deploy-supply-chain.ts: main
\* addresses the ledger may derive for the Retailer deployment
RetailerAddresses == {"0xR1", "0xR2"}
NoArgs == << >>
NoManifest == [written |-> FALSE, retailer |-> "", manufacturer |-> ""]

\* values a code read of the script can return: also more than two bytes
ChainCodeSamples == CodeSamples \cup { Code("bytes", "", 3) }

\* String.length / Uint8Array.length of a value returned by getCode
JsLength(code) ==
  IF code.t = "string"
    THEN (IF code.s = "" THEN 0 ELSE IF code.s = "0x" THEN 2 ELSE 2 + 2 * code.n)
    ELSE code.n

\* variant: a bare "0x" counts as code
codePresentLax(code) ==
  /\ code.t # "null"
  /\ JsLength(code) >= 2

\* deploy-supply-chain.ts:193 and 286:  code && code.length > 2
codePresent(code) ==
  /\ code.t # "null"
  /\ ~(code.t = "string" /\ code.s = "")
  /\ JsLength(code) > 2

InitChain ==
  /\ cpc = "r_account"
  /\ retailerFeeCredit = NoValue
  /\ retailerAddress = ""
  /\ retailerHash = ""
  /\ retailerRetries = 0
  /\ isRetailerDeployed = FALSE
  /\ manufacturerArgs = NoArgs
  /\ manufacturerFeeCredit = NoValue
  /\ manufacturerAddress = ""
  /\ manufacturerHash = ""
  /\ manufacturerRetries = 0
  /\ isManufacturerDeployed = FALSE
  /\ manifest = NoManifest
  /\ retailerCodeSeen = FALSE
  /\ manufacturerCodeSeen = FALSE
  /\ clog = << >>

\* deploy-supply-chain.ts:388-390: the outer catch logs the error and main ends
ChainError(who) ==
  /\ cpc' = "end"
  /\ clog' = Append(clog, Ev("error", who, "", 0))

\* deploy-supply-chain.ts:126-140
ChainRetailerAccount ==
  /\ cpc = "r_account"
  /\ \/ ChainError("retailer")
     \/ /\ cpc' = "r_balance"
        /\ clog' = Append(clog, Ev("createAccount", "retailer", "", 0))
  /\ UNCHANGED <<retailerFeeCredit, retailerAddress, retailerHash, retailerRetries,
                 isRetailerDeployed, manufacturerArgs, manufacturerFeeCredit,
                 manufacturerAddress, manufacturerHash, manufacturerRetries,
                 isManufacturerDeployed, manifest>>
  /\ UNCHANGED <<retailerCodeSeen, manufacturerCodeSeen>>
  /\ UNCHANGED <<dvars, svars>>

\* deploy-supply-chain.ts:143-144
ChainRetailerBalance ==
  /\ cpc = "r_balance"
  /\ \/ ChainError("retailer")
     \/ /\ cpc' = "r_gas"
        /\ clog' = Append(clog, Ev("balance", "retailer", "", 0))
  /\ UNCHANGED <<retailerFeeCredit, retailerAddress, retailerHash, retailerRetries,
                 isRetailerDeployed, manufacturerArgs, manufacturerFeeCredit,
                 manufacturerAddress, manufacturerHash, manufacturerRetries,
                 isManufacturerDeployed, manifest>>
  /\ UNCHANGED <<retailerCodeSeen, manufacturerCodeSeen>>
  /\ UNCHANGED <<dvars, svars>>

\* deploy-supply-chain.ts:151-152
ChainRetailerGasPrice ==
  /\ cpc = "r_gas"
  /\ \/ ChainError("retailer") /\ UNCHANGED retailerFeeCredit
     \/ \E g \in GasPrices :
          /\ retailerFeeCredit' = InternalGasMultiplier * g
          /\ cpc' = "r_deploy"
          /\ clog' = Append(clog, Ev("gasPrice", "retailer", "", RETAILER_SHARD_ID))
  /\ UNCHANGED <<retailerAddress, retailerHash, retailerRetries,
                 isRetailerDeployed, manufacturerArgs, manufacturerFeeCredit,
                 manufacturerAddress, manufacturerHash, manufacturerRetries,
                 isManufacturerDeployed, manifest>>
  /\ UNCHANGED <<retailerCodeSeen, manufacturerCodeSeen>>
  /\ UNCHANGED <<dvars, svars>>

\* deploy-supply-chain.ts:155-170
ChainRetailerDeploy ==
  /\ cpc = "r_deploy"
  /\ \/ ChainError("retailer") /\ UNCHANGED <<retailerAddress, retailerHash>>
     \/ \E a \in RetailerAddresses :
          /\ retailerAddress' = a
          /\ retailerHash' = "hRet"
          /\ cpc' = "r_wait"
          /\ clog' = Append(clog, Ev("submit", "retailer", a, retailerFeeCredit))
  /\ UNCHANGED <<retailerFeeCredit, retailerRetries,
                 isRetailerDeployed, manufacturerArgs, manufacturerFeeCredit,
                 manufacturerAddress, manufacturerHash, manufacturerRetries,
                 isManufacturerDeployed, manifest>>
  /\ UNCHANGED <<retailerCodeSeen, manufacturerCodeSeen>>
  /\ UNCHANGED <<dvars, svars>>

\* deploy-supply-chain.ts:175-188
ChainRetailerWait ==
  /\ cpc = "r_wait"
  /\ \/ /\ cpc' = "end"                        \* line 178-180: return
        /\ clog' = Append(clog, Ev("waitError", "retailer", retailerHash, 0))
     \/ /\ cpc' = "r_code"
        /\ clog' = Append(clog, Ev("waitCompleted", "retailer", retailerHash, 0))
  /\ UNCHANGED <<retailerFeeCredit, retailerAddress, retailerHash, retailerRetries,
                 isRetailerDeployed, manufacturerArgs, manufacturerFeeCredit,
                 manufacturerAddress, manufacturerHash, manufacturerRetries,
                 isManufacturerDeployed, manifest>>
  /\ UNCHANGED <<retailerCodeSeen, manufacturerCodeSeen>>
  /\ UNCHANGED <<dvars, svars>>

\* deploy-supply-chain.ts:190-199
ChainRetailerCode ==
  /\ cpc = "r_code"
  /\ retailerRetries < ChainCodeRetries /\ ~isRetailerDeployed
  /\ clog' = Append(clog, Ev("codeRead", "retailer", retailerAddress, 0))
  /\ \/ /\ cpc' = "r_delay"                    \* getCode raised, caught at 197
        /\ UNCHANGED <<isRetailerDeployed, retailerCodeSeen>>
     \/ \E code \in ChainCodeSamples :
          /\ retailerCodeSeen' = (retailerCodeSeen \/ CodeBytes(code) > 0)
          /\ IF codePresent(code)
               THEN isRetailerDeployed' = TRUE /\ cpc' = "r_check"
               ELSE cpc' = "r_delay" /\ UNCHANGED isRetailerDeployed
  /\ UNCHANGED <<retailerFeeCredit, retailerAddress, retailerHash, retailerRetries,
                 manufacturerArgs, manufacturerFeeCredit,
                 manufacturerAddress, manufacturerHash, manufacturerRetries,
                 isManufacturerDeployed, manifest>>
  /\ UNCHANGED manufacturerCodeSeen
  /\ UNCHANGED <<dvars, svars>>

\* deploy-supply-chain.ts:201-202, then the loop condition of line 190
ChainRetailerDelay ==
  /\ cpc = "r_delay"
  /\ retailerRetries' = retailerRetries + 1
  /\ clog' = Append(clog, Ev("sleep", "retailer", "", 2))
  /\ cpc' = IF retailerRetries + 1 < ChainCodeRetries THEN "r_code" ELSE "r_check"
  /\ UNCHANGED <<retailerFeeCredit, retailerAddress, retailerHash,
                 isRetailerDeployed, manufacturerArgs, manufacturerFeeCredit,
                 manufacturerAddress, manufacturerHash, manufacturerRetries,
                 isManufacturerDeployed, manifest>>
  /\ UNCHANGED <<retailerCodeSeen, manufacturerCodeSeen>>
  /\ UNCHANGED <<dvars, svars>>

\* deploy-supply-chain.ts:205-213
ChainRetailerCheck ==
  /\ cpc = "r_check"
  /\ cpc' = IF isRetailerDeployed THEN "m_account" ELSE "end"
  /\ UNCHANGED <<retailerFeeCredit, retailerAddress, retailerHash, retailerRetries,
                 isRetailerDeployed, manufacturerArgs, manufacturerFeeCredit,
                 manufacturerAddress, manufacturerHash, manufacturerRetries,
                 isManufacturerDeployed, manifest, clog>>
  /\ UNCHANGED <<retailerCodeSeen, manufacturerCodeSeen>>
  /\ UNCHANGED <<dvars, svars>>

\* deploy-supply-chain.ts:216-237
ChainManufacturerAccount ==
  /\ cpc = "m_account"
  /\ \/ ChainError("manufacturer")
     \/ /\ cpc' = "m_gas"
        /\ clog' = Append(clog, Ev("createAccount", "manufacturer", "", 0))
  /\ UNCHANGED <<retailerFeeCredit, retailerAddress, retailerHash, retailerRetries,
                 isRetailerDeployed, manufacturerArgs, manufacturerFeeCredit,
                 manufacturerAddress, manufacturerHash, manufacturerRetries,
                 isManufacturerDeployed, manifest>>
  /\ UNCHANGED <<retailerCodeSeen, manufacturerCodeSeen>>
  /\ UNCHANGED <<dvars, svars>>

\* deploy-supply-chain.ts:240-241
ChainManufacturerGasPrice ==
  /\ cpc = "m_gas"
  /\ \/ ChainError("manufacturer") /\ UNCHANGED manufacturerFeeCredit
     \/ \E g \in GasPrices :
          /\ manufacturerFeeCredit' = InternalGasMultiplier * g
          /\ cpc' = "m_deploy"
          /\ clog' = Append(Append(clog,
                         Ev("gasPrice", "manufacturer", "", MANUFACTURER_SHARD_ID)),
                         Ev("gasPriceResult", "manufacturer", "", g))
  /\ UNCHANGED <<retailerFeeCredit, retailerAddress, retailerHash, retailerRetries,
                 isRetailerDeployed, manufacturerArgs,
                 manufacturerAddress, manufacturerHash, manufacturerRetries,
                 isManufacturerDeployed, manifest>>
  /\ UNCHANGED <<retailerCodeSeen, manufacturerCodeSeen>>
  /\ UNCHANGED <<dvars, svars>>

\* variant: the Retailer's transaction hash is passed instead of its address
manufacturerDeployArgsHash(pubkey, address, txHash) == <<pubkey, txHash>>

\* deploy-supply-chain.ts:251  args: [pubkey, retailerAddress]
manufacturerDeployArgs(pubkey, address, txHash) == <<pubkey, address>>

\* deploy-supply-chain.ts:244-263: the deployment request (its address
\* argument and shard) and the submission with its fee credit
ChainManufacturerDeploy ==
  /\ cpc = "m_deploy"
  /\ \/ /\ ChainError("manufacturer")
        /\ UNCHANGED <<manufacturerArgs, manufacturerAddress, manufacturerHash>>
     \/ LET deployArgs == manufacturerDeployArgs("pubkey", retailerAddress, retailerHash)
        IN /\ manufacturerArgs' = deployArgs
           /\ manufacturerAddress' = "0xM1"
           /\ manufacturerHash' = "hMan"
           /\ cpc' = "m_wait"
           /\ clog' = Append(Append(clog,
                          Ev("deployRequest", "manufacturer", deployArgs[2], MANUFACTURER_SHARD_ID)),
                          Ev("submit", "manufacturer", "0xM1", manufacturerFeeCredit))
  /\ UNCHANGED <<retailerFeeCredit, retailerAddress, retailerHash, retailerRetries,
                 isRetailerDeployed, manufacturerFeeCredit, manufacturerRetries,
                 isManufacturerDeployed, manifest>>
  /\ UNCHANGED <<retailerCodeSeen, manufacturerCodeSeen>>
  /\ UNCHANGED <<dvars, svars>>

\* deploy-supply-chain.ts:268-281
ChainManufacturerWait ==
  /\ cpc = "m_wait"
  /\ \/ /\ cpc' = "end"                        \* line 271-273: return
        /\ clog' = Append(clog, Ev("waitError", "manufacturer", manufacturerHash, 0))
     \/ /\ cpc' = "m_code"
        /\ clog' = Append(clog, Ev("waitCompleted", "manufacturer", manufacturerHash, 0))
  /\ UNCHANGED <<retailerFeeCredit, retailerAddress, retailerHash, retailerRetries,
                 isRetailerDeployed, manufacturerArgs, manufacturerFeeCredit,
                 manufacturerAddress, manufacturerHash, manufacturerRetries,
                 isManufacturerDeployed, manifest>>
  /\ UNCHANGED <<retailerCodeSeen, manufacturerCodeSeen>>
  /\ UNCHANGED <<dvars, svars>>

\* deploy-supply-chain.ts:283-292
ChainManufacturerCode ==
  /\ cpc = "m_code"
  /\ manufacturerRetries < ChainCodeRetries /\ ~isManufacturerDeployed
  /\ clog' = Append(clog, Ev("codeRead", "manufacturer", manufacturerAddress, 0))
  /\ \/ /\ cpc' = "m_delay"
        /\ UNCHANGED <<isManufacturerDeployed, manufacturerCodeSeen>>
     \/ \E code \in ChainCodeSamples :
          /\ manufacturerCodeSeen' = (manufacturerCodeSeen \/ CodeBytes(code) > 0)
          /\ IF codePresent(code)
               THEN isManufacturerDeployed' = TRUE /\ cpc' = "m_check"
               ELSE cpc' = "m_delay" /\ UNCHANGED isManufacturerDeployed
  /\ UNCHANGED <<retailerFeeCredit, retailerAddress, retailerHash, retailerRetries,
                 isRetailerDeployed, manufacturerArgs, manufacturerFeeCredit,
                 manufacturerAddress, manufacturerHash, manufacturerRetries,
                 manifest>>
  /\ UNCHANGED retailerCodeSeen
  /\ UNCHANGED <<dvars, svars>>

\* deploy-supply-chain.ts:294-295, then the loop condition of line 283
ChainManufacturerDelay ==
  /\ cpc = "m_delay"
  /\ manufacturerRetries' = manufacturerRetries + 1
  /\ clog' = Append(clog, Ev("sleep", "manufacturer", "", 2))
  /\ cpc' = IF manufacturerRetries + 1 < ChainCodeRetries THEN "m_code" ELSE "m_check"
  /\ UNCHANGED <<retailerFeeCredit, retailerAddress, retailerHash, retailerRetries,
                 isRetailerDeployed, manufacturerArgs, manufacturerFeeCredit,
                 manufacturerAddress, manufacturerHash,
                 isManufacturerDeployed, manifest>>
  /\ UNCHANGED <<retailerCodeSeen, manufacturerCodeSeen>>
  /\ UNCHANGED <<dvars, svars>>

\* variant: the manifest is written whatever the Manufacturer's code reads gave
ChainManufacturerCheckAlways ==
  /\ cpc = "m_check"
  /\ manifest' = [written |-> TRUE, retailer |-> retailerAddress,
                  manufacturer |-> manufacturerAddress]
  /\ clog' = Append(clog, Ev("writeManifest", "manufacturer", "", 0))
  /\ cpc' = "end"
  /\ UNCHANGED <<retailerFeeCredit, retailerAddress, retailerHash, retailerRetries,
                 isRetailerDeployed, manufacturerArgs, manufacturerFeeCredit,
                 manufacturerAddress, manufacturerHash, manufacturerRetries,
                 isManufacturerDeployed>>
  /\ UNCHANGED <<retailerCodeSeen, manufacturerCodeSeen>>
  /\ UNCHANGED <<dvars, svars>>

\* deploy-supply-chain.ts:298-328: the manifest is written after both checks
ChainManufacturerCheck ==
  /\ cpc = "m_check"
  /\ IF isManufacturerDeployed
       THEN /\ manifest' = [written |-> TRUE, retailer |-> retailerAddress,
                            manufacturer |-> manufacturerAddress]
            /\ clog' = Append(clog, Ev("writeManifest", "manufacturer", "", 0))
       ELSE UNCHANGED <<manifest, clog>>
  /\ cpc' = "end"
  /\ UNCHANGED <<retailerFeeCredit, retailerAddress, retailerHash, retailerRetries,
                 isRetailerDeployed, manufacturerArgs, manufacturerFeeCredit,
                 manufacturerAddress, manufacturerHash, manufacturerRetries,
                 isManufacturerDeployed>>
  /\ UNCHANGED <<retailerCodeSeen, manufacturerCodeSeen>>
  /\ UNCHANGED <<dvars, svars>>

NextChain ==
  \/ ChainRetailerAccount
  \/ ChainRetailerBalance
  \/ ChainRetailerGasPrice
  \/ ChainRetailerDeploy
  \/ ChainRetailerWait
  \/ ChainRetailerCode
  \/ ChainRetailerDelay
  \/ ChainRetailerCheck
  \/ ChainManufacturerAccount
  \/ ChainManufacturerGasPrice
  \/ ChainManufacturerDeploy
  \/ ChainManufacturerWait
  \/ ChainManufacturerCode
  \/ ChainManufacturerDelay
  \/ ChainManufacturerCheck

\* ============================ account and supply-chain action providers
\* part_002 and part_000: actions of the providers that take addresses
\* a string is the sequence of its characters
EmptyString == << >>
Prefix0x == <<"0", "x">>

\* String.prototype.startsWith('0x')
startsWith0x(address) ==
  Len(address) >= 2 /\ address[1] = "0" /\ address[2] = "x"

\* part_002:131-133 and part_000:210-212
normalizeAddress(address) ==
  IF startsWith0x(address) THEN address ELSE Prefix0x \o address

\* String.prototype.charAt, positions counted from 0
charAt(str, pos) == IF pos + 1 <= Len(str) THEN str[pos + 1] ELSE ""

HexLower == <<"0", "1", "2", "3", "4", "5", "6", "7", "8", "9",
              "a", "b", "c", "d", "e", "f">>
HexUpper == <<"0", "1", "2", "3", "4", "5", "6", "7", "8", "9",
              "A", "B", "C", "D", "E", "F">>
\* the value parseInt gives when there is no digit
NaN == 0 - 1
isNaN(n) == n = NaN

\* parseInt(c, 16) of a string of at most one character
parseInt16(c) ==
  IF \E k \in 1..16 : HexLower[k] = c
    THEN (CHOOSE k \in 1..16 : HexLower[k] = c) - 1
    ELSE IF \E k \in 1..16 : HexUpper[k] = c
      THEN (CHOOSE k \in 1..16 : HexUpper[k] = c) - 1
      ELSE NaN

\* the value returned for an address that is no string or is empty
NullShard == 0

\* part_002:105-129
extractShardFromAddress(address) ==
  IF address = EmptyString THEN NullShard
  ELSE LET normalizedAddress == normalizeAddress(address)
           possibleShardChar == charAt(normalizedAddress, 4)
           possibleShardNum  == parseInt16(possibleShardChar)
       IN IF ~isNaN(possibleShardNum) /\ possibleShardNum >= 1 /\ possibleShardNum <= 4
            THEN possibleShardNum
            ELSE 1

\* characters of the address inputs
AddressChars == {"0", "1", "2", "4", "5", "a", "z"}

\* address inputs of extractShardFromAddress: with and without prefix, the
\* shard digits in both positions after the leading zeros, short strings
ShardAddresses ==
  { <<"0", "x", "0", "0", c, d, "a", "b">> : c \in AddressChars, d \in AddressChars }
  \cup { <<"0", "0", c, d, "a", "b">> : c \in AddressChars, d \in AddressChars }
  \cup { EmptyString, <<"0">>, <<"0", "x">>, <<"0", "x", "0", "0">>,
         <<"0", "x", "0", "0", "0">>, <<"0", "0", "0", "2">>, <<"0", "X", "0", "0", "0", "2">> }

\* address inputs of the deployment and transfer actions
PlainAddresses == { EmptyString, <<"0", "x", "a", "1">>, <<"a", "1">>, <<"0", "X", "a">> }

\* a recipient of a batch transfer: address, and whether BigInt accepts the amount
Recipients == [address : {<<"0", "x", "b">>, <<"b">>}, amountValid : BOOLEAN]
RecipientLists == UNION { [1..n -> Recipients] : n \in 0..MaxRecipients }

NoRequest ==
  [op |-> "none", address |-> EmptyString, publicKey |-> "none", known |-> FALSE,
   recipients |-> << >>, method |-> "none", shardId |-> 0]

\* methods a caller may name: the one with its own branch, and another
Methods == {"increment", "setValue"}

\* args.shardId of a batch transfer: 0 stands for a shard id that is not given
BatchShards == {0, 2}
\* part_002:622  args.shardId || 1
shardOrDefault(shardId) == IF shardId = 0 THEN 1 ELSE shardId

\* the requests of the provider runs
ActionRequests ==
  { [op |-> "extractShardFromAddress", address |-> a, publicKey |-> "none",
     known |-> FALSE, recipients |-> << >>, method |-> "none", shardId |-> 0] :
       a \in ShardAddresses }
  \cup { [op |-> "deployManufacturerContract", address |-> a, publicKey |-> k,
          known |-> FALSE, recipients |-> << >>, method |-> "none", shardId |-> 0] :
            a \in PlainAddresses, k \in {"none", "hex", "nothex"} }
  \cup { [op |-> "batchTransferTokens", address |-> a, publicKey |-> "none",
          known |-> kn, recipients |-> rs, method |-> "none", shardId |-> sh] :
            a \in PlainAddresses, kn \in BOOLEAN, rs \in RecipientLists,
            sh \in BatchShards }
  \cup { [op |-> "executeContractMethod", address |-> a, publicKey |-> "none",
          known |-> FALSE, recipients |-> << >>, method |-> m, shardId |-> ExecShardId] :
            a \in PlainAddresses, m \in Methods }

ActionResult(k, sh, all) == [kind |-> k, shard |-> sh, allSucceeded |-> all]
NoActionResult == ActionResult("none", 0, FALSE)

InitAction ==
  /\ ares = NoActionResult
  /\ constructorArgs = << >>
  /\ verificationAttempts = 0
  /\ isVerified = FALSE
  /\ successCount = 0
  /\ failCount = 0
  /\ results = << >>
  /\ alog = << >>

\* part_002:105-129
ExtractShardFromAddress ==
  /\ apc = "start"
  /\ areq.op = "extractShardFromAddress"
  /\ ares' = ActionResult("shard", extractShardFromAddress(areq.address), FALSE)
  /\ apc' = "done"
  /\ UNCHANGED <<areq, constructorArgs, verificationAttempts, isVerified, successCount,
                 failCount, results, alog>>
  /\ UNCHANGED <<dvars, cvars, sreq, clients, derived, tvars>>

\* ------------------------------------------ deployManufacturerContract
\* part_000:453-459: the outer catch raises ContractDeploymentError
ActionThrow ==
  /\ ares' = ActionResult("thrown", 0, FALSE)
  /\ apc' = "done"

\* variant: an empty retailer address is let through
retailerAddressMissingNever(address) == FALSE

\* part_000:341  !retailerAddress
retailerAddressMissing(address) == address = EmptyString

\* part_000:339-368: the guard, the client, the public key, the normalised
\* address and the salt; hexToBytes may reject a key that is no hex string
MfrPrepare ==
  /\ apc = "start"
  /\ areq.op = "deployManufacturerContract"
  /\ IF retailerAddressMissing(areq.address)
       THEN ActionThrow
       ELSE \/ /\ areq.publicKey = "nothex"
               /\ ActionThrow
            \/ /\ apc' = "m_account"
               /\ UNCHANGED ares
  /\ UNCHANGED <<areq, constructorArgs, verificationAttempts, isVerified,
                 successCount, failCount, results, alog>>
  /\ UNCHANGED <<dvars, cvars, sreq, clients, derived, tvars>>
\* part_000:371-375
MfrGenerateSmartAccount ==
  /\ apc = "m_account"
  /\ \/ /\ ActionThrow
        /\ alog' = Append(alog, Ev("createAccountError", "manufacturer", "", 0))
     \/ /\ apc' = "m_gas"
        /\ alog' = Append(alog, Ev("createAccount", "manufacturer", "", 0))
        /\ UNCHANGED ares
  /\ UNCHANGED <<areq, constructorArgs, verificationAttempts, isVerified,
                 successCount, failCount, results>>
  /\ UNCHANGED <<dvars, cvars, sreq, clients, derived, tvars>>
\* part_000:380-381
MfrGetGasPrice ==
  /\ apc = "m_gas"
  /\ \/ /\ ActionThrow
        /\ alog' = Append(alog, Ev("gasPriceError", "manufacturer", "", 0))
     \/ /\ apc' = "m_deploy"
        /\ alog' = Append(alog, Ev("gasPrice", "manufacturer", "", 0))
        /\ UNCHANGED ares
  /\ UNCHANGED <<areq, constructorArgs, verificationAttempts, isVerified,
                 successCount, failCount, results>>
  /\ UNCHANGED <<dvars, cvars, sreq, clients, derived, tvars>>
\* part_000:385-392
MfrDeployContract ==
  /\ apc = "m_deploy"
  /\ \/ /\ ActionThrow
        /\ alog' = Append(alog, Ev("submitError", "manufacturer", "", 0))
        /\ UNCHANGED constructorArgs
     \/ /\ constructorArgs' = <<"pubkey", normalizeAddress(areq.address)>>
        /\ apc' = "m_wait"
        /\ alog' = Append(alog, Ev("submit", "manufacturer", "", 0))
        /\ UNCHANGED ares
  /\ UNCHANGED <<areq, verificationAttempts, isVerified, successCount, failCount,
                 results>>
  /\ UNCHANGED <<dvars, cvars, sreq, clients, derived, tvars>>
\* part_000:398-404 and 445-452
MfrWaitTillCompleted ==
  /\ apc = "m_wait"
  /\ \/ /\ ares' = ActionResult("confirm_error", 0, FALSE)
        /\ apc' = "done"
        /\ alog' = Append(alog, Ev("waitError", "manufacturer", "", 0))
     \/ /\ apc' = "m_code"
        /\ alog' = Append(alog, Ev("waitCompleted", "manufacturer", "", 0))
        /\ UNCHANGED ares
  /\ verificationAttempts' = 0
  /\ isVerified' = FALSE
  /\ UNCHANGED <<areq, constructorArgs, successCount, failCount, results>>
  /\ UNCHANGED <<dvars, cvars, sreq, clients, derived, tvars>>
\* part_000:406-415 and 424-433
MfrGetCode ==
  /\ apc = "m_code"
  /\ verificationAttempts < MaxVerificationAttempts /\ ~isVerified
  /\ alog' = Append(alog, Ev("codeRead", "manufacturer", "", 0))
  /\ \/ /\ apc' = "m_sleep"                     \* getCode raised (line 413)
        /\ UNCHANGED <<isVerified, ares>>
     \/ \E code \in CodeSamples :
          /\ IF ~isEmptyCode(code)
               THEN /\ isVerified' = TRUE
                    /\ ares' = ActionResult("success", 0, FALSE)
                    /\ apc' = "done"
               ELSE /\ apc' = "m_sleep"
                    /\ UNCHANGED <<isVerified, ares>>
  /\ UNCHANGED <<areq, constructorArgs, verificationAttempts, successCount,
                 failCount, results>>
  /\ UNCHANGED <<dvars, cvars, sreq, clients, derived, tvars>>
\* part_000:417-418, the loop condition of 406, and 434-443
MfrSleep ==
  /\ apc = "m_sleep"
  /\ verificationAttempts' = verificationAttempts + 1
  /\ alog' = Append(alog, Ev("sleep", "manufacturer", "", 2))
  /\ IF verificationAttempts + 1 < MaxVerificationAttempts
       THEN apc' = "m_code" /\ UNCHANGED ares
       ELSE apc' = "done" /\ ares' = ActionResult("verification_timed_out", 0, FALSE)
  /\ UNCHANGED <<areq, constructorArgs, isVerified, successCount, failCount,
                 results>>
  /\ UNCHANGED <<dvars, cvars, sreq, clients, derived, tvars>>

\* ------------------------------------------------------------ getClient
NoClient == [shard |-> 0, client |-> 0]
hasClient(shardId) == \E e \in clientMap : e.shard = shardId

\* variant: every call constructs a client and stores it over the old one
GetClientAlways(shardId) ==
  /\ created' = created + 1
  /\ clientMap' = {e \in clientMap : e.shard # shardId}
                    \cup {[shard |-> shardId, client |-> created + 1]}
  /\ returned' = [shard |-> shardId, client |-> created + 1]

\* part_002:71-84 (schemas.ts:101-114 has the same text): Map.set on a key
\* that is absent, then Map.get
GetClient(shardId) ==
  /\ IF hasClient(shardId)
       THEN UNCHANGED <<clientMap, created>>
       ELSE /\ created' = created + 1
            /\ clientMap' = clientMap \cup {[shard |-> shardId, client |-> created + 1]}
  /\ returned' = CHOOSE e \in clientMap' : e.shard = shardId

\* -------------------------------------------------- batchTransferTokens
\* part_002:690-693: the outer catch returns the error text
BatchError ==
  /\ ares' = ActionResult("error", 0, FALSE)
  /\ apc' = "done"

\* part_002:689: the closing line of the summary
BatchSummary(succeeded, total) == ActionResult("summary", 0, succeeded = total)

\* part_002:611-646: validation, the source account, the amounts of all
\* recipients (BigInt raises on a string that is no integer), the counters
BatchPrepare ==
  /\ apc = "start"
  /\ areq.op = "batchTransferTokens"
  /\ IF \/ areq.address = EmptyString
        \/ Len(areq.recipients) = 0
        \/ ~areq.known
       THEN BatchError /\ UNCHANGED kvars
       ELSE /\ GetClient(shardOrDefault(areq.shardId))      \* line 636
            /\ IF \E k \in 1..Len(areq.recipients) : ~areq.recipients[k].amountValid
                 THEN BatchError
                 ELSE apc' = "b_send" /\ UNCHANGED ares
  /\ successCount' = 0
  /\ failCount' = 0
  /\ results' = << >>
  /\ UNCHANGED <<areq, constructorArgs, verificationAttempts, isVerified, alog>>
  /\ UNCHANGED <<dvars, cvars, sreq, clients, derived, gvars, pvars, qvars>>
\* variant: the first failed send ends the loop
BatchSendStopOnFail ==
  /\ apc = "b_send"
  /\ Len(results) < Len(areq.recipients)
  /\ LET k == Len(results) + 1
         destinationAddress == normalizeAddress(areq.recipients[k].address)
     IN /\ alog' = Append(alog, Ev("sendTransaction", "batch", destinationAddress, k))
        /\ \/ /\ successCount' = successCount + 1
              /\ results' = Append(results, "transferred")
              /\ UNCHANGED failCount
              /\ IF k = Len(areq.recipients)
                   THEN /\ ares' = BatchSummary(successCount + 1, Len(areq.recipients))
                        /\ apc' = "done"
                   ELSE UNCHANGED <<ares, apc>>
           \/ /\ failCount' = failCount + 1
              /\ results' = Append(results, "failed")
              /\ UNCHANGED successCount
              /\ ares' = BatchSummary(successCount, Len(areq.recipients))
              /\ apc' = "done"
  /\ UNCHANGED <<areq, constructorArgs, verificationAttempts, isVerified>>
  /\ UNCHANGED <<dvars, cvars, sreq, clients, derived, tvars>>
\* part_002:652-675, one recipient of the loop; after the last one 679-689
BatchSend ==
  /\ apc = "b_send"
  /\ Len(results) < Len(areq.recipients)
  /\ LET k == Len(results) + 1
         destinationAddress == normalizeAddress(areq.recipients[k].address)
     IN /\ alog' = Append(alog, Ev("sendTransaction", "batch", destinationAddress, k))
        /\ \/ /\ successCount' = successCount + 1
              /\ results' = Append(results, "transferred")
              /\ UNCHANGED failCount
           \/ /\ failCount' = failCount + 1
              /\ results' = Append(results, "failed")
              /\ UNCHANGED successCount
        /\ IF k = Len(areq.recipients)
             THEN /\ ares' = BatchSummary(successCount', Len(areq.recipients))
                  /\ apc' = "done"
             ELSE UNCHANGED <<ares, apc>>
  /\ UNCHANGED <<areq, constructorArgs, verificationAttempts, isVerified>>
  /\ UNCHANGED <<dvars, cvars, sreq, clients, derived, tvars>>

\* ------------------------------------------------ executeContractMethod
\* schemas.ts:1285-1288: the outer catch returns the error text
ExecError ==
  /\ ares' = ActionResult("error", 0, FALSE)
  /\ apc' = "done"

ExecReturn(kind) ==
  /\ ares' = ActionResult(kind, 0, FALSE)
  /\ apc' = "done"

\* schemas.ts:1068-1091: the address, the client, the code read at the
\* address, the ABI, and the choice of the approach
ExecGetCode ==
  /\ apc = "start"
  /\ areq.op = "executeContractMethod"
  /\ \/ /\ ExecError                                 \* getCode raised
        /\ alog' = Append(alog, Ev("codeError", "execute", normalizeAddress(areq.address), 0))
     \/ \E code \in CodeSamples :
          /\ alog' = Append(alog, Ev("code", "execute", normalizeAddress(areq.address),
                                     CodeBytes(code)))
          /\ IF isEmptyCode(code)
               THEN ExecReturn("no_contract")
               ELSE /\ apc' = IF areq.method = "increment" THEN "x_f_account" ELSE "x_account"
                    /\ UNCHANGED ares
  /\ clients' = clients \cup {areq.shardId}           \* getClient, line 1071
  /\ UNCHANGED <<areq, constructorArgs, verificationAttempts, isVerified,
                 successCount, failCount, results>>
  /\ UNCHANGED <<dvars, cvars, sreq, derived, tvars>>

\* schemas.ts:1095-1109; a raise is caught at 1155
ExecFactoryAccount ==
  /\ apc = "x_f_account"
  /\ \/ apc' = "x_account"
     \/ apc' = "x_f_write"
  /\ UNCHANGED <<areq, ares, constructorArgs, verificationAttempts, isVerified,
                 successCount, failCount, results, alog>>
  /\ UNCHANGED <<dvars, cvars, sreq, clients, derived, tvars>>

\* schemas.ts:1113; a raise is caught at 1155
ExecFactoryWrite ==
  /\ apc = "x_f_write"
  /\ \/ /\ apc' = "x_account"
        /\ UNCHANGED alog
     \/ /\ apc' = "x_f_wait"
        /\ alog' = Append(alog, Ev("sendTransaction", "factory",
                                   normalizeAddress(areq.address), 0))
  /\ UNCHANGED <<areq, ares, constructorArgs, verificationAttempts, isVerified,
                 successCount, failCount, results>>
  /\ UNCHANGED <<dvars, cvars, sreq, clients, derived, tvars>>

\* schemas.ts:1117; a raise is caught at 1155
ExecFactoryWait ==
  /\ apc = "x_f_wait"
  /\ \/ apc' = "x_account"
     \/ apc' = "x_f_read"
  /\ UNCHANGED <<areq, ares, constructorArgs, verificationAttempts, isVerified,
                 successCount, failCount, results, alog>>
  /\ UNCHANGED <<dvars, cvars, sreq, clients, derived, tvars>>

\* schemas.ts:1121-1154: with the new value or without it, success is returned
ExecFactoryRead ==
  /\ apc = "x_f_read"
  /\ ExecReturn("success_factory")
  /\ UNCHANGED <<areq, constructorArgs, verificationAttempts, isVerified,
                 successCount, failCount, results, alog>>
  /\ UNCHANGED <<dvars, cvars, sreq, clients, derived, tvars>>

\* schemas.ts:1164-1168
ExecAccount ==
  /\ apc = "x_account"
  /\ \/ ExecError
     \/ apc' = "x_gas" /\ UNCHANGED ares
  /\ UNCHANGED <<areq, constructorArgs, verificationAttempts, isVerified,
                 successCount, failCount, results, alog>>
  /\ UNCHANGED <<dvars, cvars, sreq, clients, derived, tvars>>

\* schemas.ts:1173-1175
ExecGetGasPrice ==
  /\ apc = "x_gas"
  /\ \/ ExecError
     \/ apc' = "x_send" /\ UNCHANGED ares
  /\ UNCHANGED <<areq, constructorArgs, verificationAttempts, isVerified,
                 successCount, failCount, results, alog>>
  /\ UNCHANGED <<dvars, cvars, sreq, clients, derived, tvars>>

\* schemas.ts:1179-1186 (increment) and 1252-1269 (other methods, where
\* encodeFunctionData or BigInt may raise before anything is sent)
ExecSend ==
  /\ apc = "x_send"
  /\ \/ /\ ExecError
        /\ UNCHANGED alog
     \/ /\ apc' = IF areq.method = "increment" THEN "x_wait_increment" ELSE "x_wait"
        /\ alog' = Append(alog, Ev("sendTransaction", "standard",
                                   normalizeAddress(areq.address), 0))
        /\ UNCHANGED ares
  /\ UNCHANGED <<areq, constructorArgs, verificationAttempts, isVerified,
                 successCount, failCount, results>>
  /\ UNCHANGED <<dvars, cvars, sreq, clients, derived, tvars>>

\* schemas.ts:1191-1193, 1238-1243
ExecWaitIncrement ==
  /\ apc = "x_wait_increment"
  /\ \/ ExecReturn("sent_may_have_failed")
     \/ apc' = "x_read" /\ UNCHANGED ares
  /\ UNCHANGED <<areq, constructorArgs, verificationAttempts, isVerified,
                 successCount, failCount, results, alog>>
  /\ UNCHANGED <<dvars, cvars, sreq, clients, derived, tvars>>

\* schemas.ts:1196-1237, 1245-1247
ExecRead ==
  /\ apc = "x_read"
  /\ \/ ExecReturn("sent")                           \* the call raised
     \/ ExecReturn("success")
  /\ UNCHANGED <<areq, constructorArgs, verificationAttempts, isVerified,
                 successCount, failCount, results, alog>>
  /\ UNCHANGED <<dvars, cvars, sreq, clients, derived, tvars>>

\* schemas.ts:1272-1284
ExecWait ==
  /\ apc = "x_wait"
  /\ \/ ExecReturn("sent_may_have_failed")
     \/ ExecReturn("success")
  /\ UNCHANGED <<areq, constructorArgs, verificationAttempts, isVerified,
                 successCount, failCount, results, alog>>
  /\ UNCHANGED <<dvars, cvars, sreq, clients, derived, tvars>>

NextAction ==
  \/ ExtractShardFromAddress
  \/ MfrPrepare
  \/ MfrGenerateSmartAccount
  \/ MfrGetGasPrice
  \/ MfrDeployContract
  \/ MfrWaitTillCompleted
  \/ MfrGetCode
  \/ MfrSleep
  \/ BatchPrepare
  \/ BatchSend
  \/ ExecGetCode
  \/ ExecFactoryAccount
  \/ ExecFactoryWrite
  \/ ExecFactoryWait
  \/ ExecFactoryRead
  \/ ExecAccount
  \/ ExecGetGasPrice
  \/ ExecSend
  \/ ExecWaitIncrement
  \/ ExecRead
  \/ ExecWait

\* ================================= a session of the account provider
\* addresses generateSmartAccount gives on a shard
AccountAddress(shardId) ==
  IF shardId = 1 THEN <<"0", "x", "0", "0", "0", "1", "a">>
                 ELSE <<"0", "x", "0", "0", "0", "2", "b">>
SessionShards == {1, 2}

Account(address, shardId) == [address |-> address, shardId |-> shardId]
NoAccount == Account(EmptyString, 0)

\* Map.has, Map.get and Map.set of this.accounts
hasAccount(address) == \E a \in accounts : a.address = address
getAccount(address) ==
  IF hasAccount(address) THEN CHOOSE a \in accounts : a.address = address
                         ELSE NoAccount
setAccount(a) == {b \in accounts : b.address # a.address} \cup {a}

SessionRequest(op, address, shardId, flag, amountValid) ==
  [op |-> op, address |-> address, shardId |-> shardId, flag |-> flag,
   amountValid |-> amountValid]
NoSessionRequest == SessionRequest("none", EmptyString, 0, FALSE, FALSE)

\* part_002:36-38: the provider after its constructor, without NIL_PRIVATE_KEY
InitAccountProvider ==
  /\ clientMap = {}
  /\ created = 0
  /\ returned = NoClient
  /\ tpc = "idle"
  /\ tres = "none"
  /\ accounts = {}
  /\ privateKey = "none"
  /\ account = NoAccount
  /\ deploymentSuccess = "none"
  /\ served = 0
  /\ tlog = << >>

\* an action returns its text to the agent
SessionReturn(kind) ==
  /\ tres' = kind
  /\ tpc' = "idle"

\* ---------------------------------------------------- createSmartAccount
\* createSmartAccount is invoked; flag says whether args.privateKey is given
CreateRequests ==
  {SessionRequest("createSmartAccount", EmptyString, s, f, FALSE) :
     s \in SessionShards, f \in BOOLEAN}

\* balances a read can return, in units of 10^15
CreateBalances == {0, CreateMinBalance - 1, CreateMinBalance, 2 * CreateMinBalance}

\* part_002:146-176, 223-251: the private key, generateSmartAccount, the
\* account stored in this.accounts
CreateGenerate ==
  /\ tpc = "c_generate"
  /\ privateKey' = IF privateKey = "none" THEN "generated" ELSE privateKey
  /\ \/ /\ SessionReturn("api_error")
        /\ UNCHANGED <<account, accounts>>
     \/ /\ account' = Account(AccountAddress(treq.shardId), treq.shardId)
        /\ accounts' = setAccount(account')
        /\ tpc' = "c_race"
        /\ UNCHANGED tres
  /\ UNCHANGED <<treq, deploymentSuccess, served, tlog>>
  /\ UNCHANGED <<dvars, cvars, sreq, clients, derived, avars, gvars, kvars, qvars>>

\* part_002:179-187: the race of checkDeploymentStatus with the 30 s timer;
\* a rejection of checkDeploymentStatus reaches the catch of 223; then the
\* client is taken
CreateRace ==
  /\ tpc = "c_race"
  /\ \/ /\ SessionReturn("api_error")
        /\ UNCHANGED <<deploymentSuccess, kvars>>
     \/ \E won \in {"true", "false"} :
          /\ deploymentSuccess' = won
          /\ GetClient(treq.shardId)
          /\ tpc' = "c_balance"
          /\ UNCHANGED tres
  /\ UNCHANGED <<treq, accounts, privateKey, account, served, tlog>>
  /\ UNCHANGED <<dvars, cvars, sreq, clients, derived, avars, gvars, qvars>>

\* part_002:188-191, 205-222
CreateGetBalance ==
  /\ tpc = "c_balance"
  /\ \/ /\ SessionReturn("account_deployed")
        /\ tlog' = Append(tlog, Ev("balanceError", "create", account.address, 0))
     \/ \E b \in CreateBalances :
          /\ tlog' = Append(tlog, Ev("balance", "create", account.address, b))
          /\ IF b < CreateMinBalance
               THEN tpc' = "c_topup" /\ UNCHANGED tres
               ELSE SessionReturn("account_deployed")
  /\ UNCHANGED <<treq, accounts, privateKey, account, deploymentSuccess, served>>
  /\ UNCHANGED <<dvars, cvars, sreq, clients, derived, avars, gvars, kvars, qvars>>

\* part_002:194-200, 205-222
CreateTopUp ==
  /\ tpc = "c_topup"
  /\ tlog' = Append(tlog, Ev("faucet", "create", account.address, CreateMinBalance))
  /\ \/ SessionReturn("account_deployed")
     \/ tpc' = "c_recheck" /\ UNCHANGED tres
  /\ UNCHANGED <<treq, accounts, privateKey, account, deploymentSuccess, served>>
  /\ UNCHANGED <<dvars, cvars, sreq, clients, derived, avars, gvars, kvars, qvars>>

\* part_002:202-222
CreateRecheck ==
  /\ tpc = "c_recheck"
  /\ SessionReturn("account_deployed")
  /\ \/ tlog' = Append(tlog, Ev("balanceError", "create", account.address, 0))
     \/ \E b \in CreateBalances :
          tlog' = Append(tlog, Ev("balance", "create", account.address, b))
  /\ UNCHANGED <<treq, accounts, privateKey, account, deploymentSuccess, served>>
  /\ UNCHANGED <<dvars, cvars, sreq, clients, derived, avars, gvars, kvars, qvars>>

\* ------------------------------------------------------------- mintToken
\* an address that no account of the session has
UnknownAddress == <<"0", "x", "0", "0", "0", "1", "c">>

\* args of mintToken: address (empty when not given), shardId (0 when not
\* given), flag for a given tokenName, and whether BigInt accepts the amount
MintRequests ==
  {SessionRequest("mintToken", a, s, f, v) :
     a \in {EmptyString, AccountAddress(1), UnknownAddress}, s \in {0, 2},
     f \in BOOLEAN, v \in BOOLEAN}

MintBalances == {0, MintMinBalance}

\* part_002:415-429: the inner catch rethrows, the outer one returns the text
MintFailed == SessionReturn("mint_failed")

\* part_002:360-361: the next call after the balance is known to do
MintAfterBalance == IF treq.flag THEN "m_name" ELSE "m_mint"

\* part_002:273-281: the client, and the account when this.accounts has it
MintStart ==
  /\ tpc = "m_start"
  /\ GetClient(shardOrDefault(treq.shardId))
  /\ IF treq.address # EmptyString /\ hasAccount(treq.address)
       THEN account' = getAccount(treq.address) /\ tpc' = "m_balance"
       ELSE tpc' = "m_generate" /\ UNCHANGED account
  /\ UNCHANGED <<treq, tres, accounts, privateKey, deploymentSuccess, served, tlog>>
  /\ UNCHANGED <<dvars, cvars, sreq, clients, derived, avars, gvars, qvars>>

\* part_002:281-332: a new account on the shard of the request or, for a given
\* address, of the address; it is stored under its own address
MintGenerate ==
  /\ tpc = "m_generate"
  /\ \/ /\ MintFailed
        /\ UNCHANGED <<account, accounts>>
     \/ LET shardId == IF treq.shardId # 0 THEN treq.shardId
                       ELSE IF treq.address # EmptyString
                         THEN shardOrDefault(extractShardFromAddress(treq.address))
                         ELSE 1
        IN /\ account' = Account(AccountAddress(shardId), shardId)
           /\ accounts' = setAccount(account')
           /\ tpc' = "m_balance"
           /\ UNCHANGED tres
  /\ UNCHANGED <<treq, privateKey, deploymentSuccess, served, tlog>>
  /\ UNCHANGED <<dvars, cvars, sreq, clients, derived, avars, gvars, kvars, qvars>>

\* part_002:335-340
MintGetBalance ==
  /\ tpc = "m_balance"
  /\ \/ /\ MintFailed
        /\ tlog' = Append(tlog, Ev("balanceError", "mint", account.address, 0))
     \/ \E b \in MintBalances :
          /\ tlog' = Append(tlog, Ev("balance", "mint", account.address, b))
          /\ tpc' = IF b < MintMinBalance THEN "m_topup" ELSE MintAfterBalance
          /\ UNCHANGED tres
  /\ UNCHANGED <<treq, accounts, privateKey, account, deploymentSuccess, served>>
  /\ UNCHANGED <<dvars, cvars, sreq, clients, derived, avars, gvars, kvars, qvars>>

\* part_002:344-353
MintTopUp ==
  /\ tpc = "m_topup"
  /\ tlog' = Append(tlog, Ev("faucet", "mint", account.address, MintTopUpAmount))
  /\ \/ MintFailed
     \/ tpc' = "m_recheck" /\ UNCHANGED tres
  /\ UNCHANGED <<treq, accounts, privateKey, account, deploymentSuccess, served>>
  /\ UNCHANGED <<dvars, cvars, sreq, clients, derived, avars, gvars, kvars, qvars>>

\* part_002:356-357
MintRecheck ==
  /\ tpc = "m_recheck"
  /\ \/ /\ MintFailed
        /\ tlog' = Append(tlog, Ev("balanceError", "mint", account.address, 0))
     \/ \E b \in MintBalances :
          /\ tlog' = Append(tlog, Ev("balance", "mint", account.address, b))
          /\ tpc' = MintAfterBalance
          /\ UNCHANGED tres
  /\ UNCHANGED <<treq, accounts, privateKey, account, deploymentSuccess, served>>
  /\ UNCHANGED <<dvars, cvars, sreq, clients, derived, avars, gvars, kvars, qvars>>

\* part_002:361-364
MintSetTokenName ==
  /\ tpc = "m_name"
  /\ \/ MintFailed /\ UNCHANGED tlog
     \/ /\ tlog' = Append(tlog, Ev("sendTransaction", "setTokenName", account.address, 0))
        /\ tpc' = "m_name_wait"
        /\ UNCHANGED tres
  /\ UNCHANGED <<treq, accounts, privateKey, account, deploymentSuccess, served>>
  /\ UNCHANGED <<dvars, cvars, sreq, clients, derived, avars, gvars, kvars, qvars>>

\* part_002:365-366
MintNameWait ==
  /\ tpc = "m_name_wait"
  /\ \/ MintFailed
     \/ tpc' = "m_mint" /\ UNCHANGED tres
  /\ UNCHANGED <<treq, accounts, privateKey, account, deploymentSuccess, served, tlog>>
  /\ UNCHANGED <<dvars, cvars, sreq, clients, derived, avars, gvars, kvars, qvars>>

\* part_002:370-375: BigInt(args.amount) raises on a string that is no integer
MintMint ==
  /\ tpc = "m_mint"
  /\ IF ~treq.amountValid
       THEN MintFailed /\ UNCHANGED tlog
       ELSE \/ MintFailed /\ UNCHANGED tlog
            \/ /\ tlog' = Append(tlog, Ev("sendTransaction", "mint", account.address, 0))
               /\ tpc' = "m_mint_wait"
               /\ UNCHANGED tres
  /\ UNCHANGED <<treq, accounts, privateKey, account, deploymentSuccess, served>>
  /\ UNCHANGED <<dvars, cvars, sreq, clients, derived, avars, gvars, kvars, qvars>>

\* part_002:378-413: the token balance read is caught, success is returned
MintWait ==
  /\ tpc = "m_mint_wait"
  /\ \/ MintFailed
     \/ SessionReturn("mint_success")
  /\ UNCHANGED <<treq, accounts, privateKey, account, deploymentSuccess, served, tlog>>
  /\ UNCHANGED <<dvars, cvars, sreq, clients, derived, avars, gvars, kvars, qvars>>

\* --------------------------------------- transferToken and burnToken
\* source addresses a caller may name: none, an address generateSmartAccount
\* gives with and without its prefix, and one no account has
SourceAddresses ==
  {EmptyString, AccountAddress(1), SubSeq(AccountAddress(1), 3, 7),
   AccountAddress(2), UnknownAddress}

TransferRequests ==
  {SessionRequest(op, a, 0, TRUE, v) :
     op \in {"transferToken", "burnToken"}, a \in SourceAddresses, v \in BOOLEAN}

\* variant: the transaction is sent from an account made up for the address
OwnTransferSendUnchecked(op, kind, failed) ==
  /\ treq.op = op
  /\ tpc = "t_start"
  /\ account' = Account(treq.address, 1)
  /\ IF ~treq.amountValid
       THEN SessionReturn(failed) /\ UNCHANGED <<tlog, kvars>>
       ELSE \/ SessionReturn(failed) /\ UNCHANGED <<tlog, kvars>>
            \/ /\ tlog' = Append(tlog, Ev("sendTransaction", kind, account'.address, 0))
               /\ GetClient(account'.shardId)
               /\ tpc' = "t_wait"
               /\ UNCHANGED tres
  /\ UNCHANGED <<treq, accounts, privateKey, deploymentSuccess, served>>
  /\ UNCHANGED <<dvars, cvars, sreq, clients, derived, avars, gvars, qvars>>

\* part_002:445-468 (transferToken) and 505-518 (burnToken): the account
\* this.accounts has for the address as given, the amount, the transaction,
\* and the client for the wait
OwnTransferSend(op, kind, failed) ==
  /\ treq.op = op
  /\ tpc = "t_start"
  /\ account' = getAccount(treq.address)
  /\ IF account' = NoAccount
       THEN SessionReturn("no_account") /\ UNCHANGED <<tlog, kvars>>
       ELSE IF ~treq.amountValid
         THEN SessionReturn(failed) /\ UNCHANGED <<tlog, kvars>>
         ELSE \/ SessionReturn(failed) /\ UNCHANGED <<tlog, kvars>>
              \/ /\ tlog' = Append(tlog, Ev("sendTransaction", kind, account'.address, 0))
                 /\ GetClient(account'.shardId)
                 /\ tpc' = "t_wait"
                 /\ UNCHANGED tres
  /\ UNCHANGED <<treq, accounts, privateKey, deploymentSuccess, served>>
  /\ UNCHANGED <<dvars, cvars, sreq, clients, derived, avars, gvars, qvars>>

\* part_002:468-490 and 518-536
OwnTransferWait(op, done, failed) ==
  /\ treq.op = op
  /\ tpc = "t_wait"
  /\ \/ SessionReturn(failed)
     \/ SessionReturn(done)
  /\ UNCHANGED <<treq, accounts, privateKey, account, deploymentSuccess, served, tlog>>
  /\ UNCHANGED <<dvars, cvars, sreq, clients, derived, avars, gvars, kvars, qvars>>

TransferSend == OwnTransferSend("transferToken", "transfer", "transfer_failed")
TransferWait == OwnTransferWait("transferToken", "transferred", "transfer_failed")
BurnSend == OwnTransferSend("burnToken", "burn", "burn_failed")
BurnWait == OwnTransferWait("burnToken", "burned", "burn_failed")

\* ---------------------------------------------------- crossShardTransfer
\* flag says whether args.toAddress is given
CrossRequests ==
  {SessionRequest("crossShardTransfer", a, 0, f, v) :
     a \in SourceAddresses, f \in BOOLEAN, v \in BOOLEAN}

\* part_002:597-600
CrossError == SessionReturn("cross_error")

\* part_002:549-581: validation, the normalised source address, the amount,
\* the shard of the address, the account this.accounts has, the client, the
\* transaction
CrossSend ==
  /\ tpc = "x_start"
  /\ LET sourceAddress == normalizeAddress(treq.address)
         sourceShardId == shardOrDefault(extractShardFromAddress(sourceAddress))
     IN IF \/ treq.address = EmptyString
           \/ ~treq.flag
           \/ ~treq.amountValid
           \/ ~hasAccount(sourceAddress)
          THEN CrossError /\ UNCHANGED <<account, tlog, kvars>>
          ELSE /\ account' = getAccount(sourceAddress)
               /\ GetClient(sourceShardId)
               /\ \/ CrossError /\ UNCHANGED tlog
                  \/ /\ tlog' = Append(tlog, Ev("sendTransaction", "cross",
                                                account'.address, 0))
                     /\ tpc' = "x_wait"
                     /\ UNCHANGED tres
  /\ UNCHANGED <<treq, accounts, privateKey, deploymentSuccess, served>>
  /\ UNCHANGED <<dvars, cvars, sreq, clients, derived, avars, gvars, qvars>>

\* part_002:584-600
CrossWait ==
  /\ tpc = "x_wait"
  /\ \/ CrossError
     \/ SessionReturn("cross_transferred")
  /\ UNCHANGED <<treq, accounts, privateKey, account, deploymentSuccess, served, tlog>>
  /\ UNCHANGED <<dvars, cvars, sreq, clients, derived, avars, gvars, kvars, qvars>>

\* ---------------------------------------- batchTransferTokens in a session
BatchSessionRequests ==
  {SessionRequest("batchTransferTokens", a, s, TRUE, TRUE) :
     a \in SourceAddresses, s \in BatchShards}

\* recipient lists of the batch transfers of a session
SessionRecipientLists == {rs \in RecipientLists : Len(rs) <= 1}

\* the actions the agent may invoke
SessionRequests ==
  CreateRequests \cup MintRequests \cup TransferRequests \cup CrossRequests
    \cup BatchSessionRequests

StartPc(op) ==
  IF op = "createSmartAccount" THEN "c_generate"
  ELSE IF op = "mintToken" THEN "m_start"
  ELSE IF op \in {"transferToken", "burnToken"} THEN "t_start"
  ELSE IF op = "crossShardTransfer" THEN "x_start"
  ELSE "batch"

\* whether the action invoked last has returned
SessionIdle == tpc = "idle" \/ (tpc = "batch" /\ apc = "done")

\* the agent invokes an action of the provider; a batch transfer runs as
\* BatchPrepare and BatchSend, finding in this.accounts what line 627 finds
Begin ==
  /\ SessionIdle
  /\ served < MaxRequests
  /\ served' = served + 1
  /\ \E r \in SessionRequests :
       /\ treq' = r
       /\ tpc' = StartPc(r.op)
       /\ IF r.op = "batchTransferTokens"
            THEN /\ \E rs \in SessionRecipientLists :
                      areq' = [op |-> r.op, address |-> r.address, publicKey |-> "none",
                               known |-> hasAccount(normalizeAddress(r.address)),
                               recipients |-> rs, method |-> "none",
                               shardId |-> r.shardId]
                 /\ apc' = "start"
            ELSE areq' = NoRequest /\ apc' = "idle"
  /\ ares' = NoActionResult
  /\ successCount' = 0
  /\ failCount' = 0
  /\ results' = << >>
  /\ alog' = << >>
  /\ tres' = "none"
  /\ returned' = NoClient
  /\ account' = NoAccount
  /\ deploymentSuccess' = "none"
  /\ tlog' = << >>
  /\ UNCHANGED <<accounts, privateKey, clientMap, created>>
  /\ UNCHANGED <<constructorArgs, verificationAttempts, isVerified>>
  /\ UNCHANGED <<dvars, cvars, sreq, clients, derived, gvars, qvars>>

NextSession ==
  \/ Begin
  \/ CreateGenerate
  \/ CreateRace
  \/ CreateGetBalance
  \/ CreateTopUp
  \/ CreateRecheck
  \/ MintStart
  \/ MintGenerate
  \/ MintGetBalance
  \/ MintTopUp
  \/ MintRecheck
  \/ MintSetTokenName
  \/ MintNameWait
  \/ MintMint
  \/ MintWait
  \/ TransferSend
  \/ TransferWait
  \/ BurnSend
  \/ BurnWait
  \/ CrossSend
  \/ CrossWait
  \/ BatchPrepare
  \/ BatchSend

\* ======================================================= salt generation
\* Math.random() gives a fraction below 1: sample k stands for k / SampleDen
NoSample == [kind |-> "none", num |-> 0, bytes |-> << >>]
Fraction(k) == [kind |-> "fraction", num |-> k, bytes |-> << >>]
RandomFractions == {Fraction(k) : k \in (0..MaxNumerator) \cup {SampleDen - 1}}
\* fractions whose product with the limit of part_010 fits the integers here
SmallFractions == {Fraction(k) : k \in 0..MaxNumerator}

\* crypto.randomBytes(8): eight bytes; the samples keep the high bytes zero
Bytes(b) == [kind |-> "bytes", num |-> 0, bytes |-> b]
RandomByteSamples ==
  {Bytes(<<0, 0, 0, 0, 0, b6, b7, b8>>) :
     b6 \in {0, 1}, b7 \in {0, 39, 255}, b8 \in {0, 15, 16, 255}}

\* Math.floor(x * m / den) for integers, without forming x * m
floorMulDiv(x, m, den) == (x \div den) * m + ((x % den) * m) \div den

\* Buffer.toString('hex'): two lower-case digits per byte
RECURSIVE toHexString(_)
toHexString(bytes) ==
  IF bytes = << >>
    THEN << >>
    ELSE <<HexLower[(Head(bytes) \div 16) + 1], HexLower[(Head(bytes) % 16) + 1]>>
           \o toHexString(Tail(bytes))

\* BigInt('0x' + digits)
RECURSIVE hexToBigInt(_)
hexToBigInt(digits) ==
  IF digits = << >>
    THEN 0
    ELSE hexToBigInt(SubSeq(digits, 1, Len(digits) - 1)) * 16
           + parseInt16(digits[Len(digits)])

NoSalt == 0 - 1

\* schemas.ts:142-145, part_000:216-218, deploy-supply-chain.ts:147 and 244:
\* BigInt(Math.floor(Math.random() * 10000))
smallRandomSalt(random) == floorMulDiv(random.num, SaltLimit, SampleDen)

\* part_004:82-85: BigInt('0x' + crypto.randomBytes(8).toString('hex'))
bytesRandomSalt(random) == hexToBigInt(toHexString(random.bytes))

\* part_010:81: BigInt(Math.floor(Math.random() * 10000000000)), the limit
\* being ScriptSaltRoot * ScriptSaltRoot
scriptRandomSalt(random) ==
  floorMulDiv(random.num * ScriptSaltRoot, ScriptSaltRoot, SampleDen)

SmallSaltSources == {"schemas.ts:143", "part_000:217", "deploy-supply-chain.ts:147",
                     "deploy-supply-chain.ts:244"}
SaltSources == SmallSaltSources \cup {"part_004:83", "part_010:81"}

\* what the random source can give at each place
SaltSamples(source) ==
  IF source \in SmallSaltSources THEN RandomFractions
  ELSE IF source = "part_004:83" THEN RandomByteSamples
  ELSE SmallFractions

InitSalt ==
  /\ saltSource = "none"
  /\ saltSample = NoSample
  /\ saltDrawn = NoSalt

\* a single deployContract request: nothing waits beside it
NoLocals == [pc |-> "none"]

InitAlone ==
  /\ other = NoLocals
  /\ cur = 0

InitIdle ==
  /\ InitSalt
  /\ InitAccountProvider
  /\ treq = NoSessionRequest
  /\ InitAlone

\* one draw at one of the places
InitSaltRun ==
  /\ saltSource \in SaltSources
  /\ saltSample \in SaltSamples(saltSource)
  /\ saltDrawn = NoSalt

\* schemas.ts:139-146 and part_000:215-219
GenerateRandomSalt ==
  /\ saltSource \in {"schemas.ts:143", "part_000:217"}
  /\ saltDrawn = NoSalt
  /\ saltDrawn' = smallRandomSalt(saltSample)
  /\ UNCHANGED <<saltSource, saltSample>>
  /\ UNCHANGED <<dvars, cvars, sreq, clients, derived, avars, kvars, pvars, qvars>>

\* part_004:81-85
GenerateRandomSaltBytes ==
  /\ saltSource = "part_004:83"
  /\ saltDrawn = NoSalt
  /\ saltDrawn' = bytesRandomSalt(saltSample)
  /\ UNCHANGED <<saltSource, saltSample>>
  /\ UNCHANGED <<dvars, cvars, sreq, clients, derived, avars, kvars, pvars, qvars>>

\* deploy-supply-chain.ts:147 and 244
ScriptSupplyChainSalt ==
  /\ saltSource \in {"deploy-supply-chain.ts:147", "deploy-supply-chain.ts:244"}
  /\ saltDrawn = NoSalt
  /\ saltDrawn' = smallRandomSalt(saltSample)
  /\ UNCHANGED <<saltSource, saltSample>>
  /\ UNCHANGED <<dvars, cvars, sreq, clients, derived, avars, kvars, pvars, qvars>>

\* part_010:80-81
ScriptCounterSalt ==
  /\ saltSource = "part_010:81"
  /\ saltDrawn = NoSalt
  /\ saltDrawn' = scriptRandomSalt(saltSample)
  /\ UNCHANGED <<saltSource, saltSample>>
  /\ UNCHANGED <<dvars, cvars, sreq, clients, derived, avars, kvars, pvars, qvars>>

NextSalt ==
  \/ GenerateRandomSalt
  \/ GenerateRandomSaltBytes
  \/ ScriptSupplyChainSalt
  \/ ScriptCounterSalt

\* ============================ address derivation and the salt of a deployment
\* generateRandomSalt (schemas.ts:143): Math.floor(Math.random() * 10000)
SaltInputs == {0 - 1, 0, 5, SaltLimit - 1, SaltLimit}
\* values generateRandomSalt may return
RandomSalts == {0, 7, SaltLimit - 1}
\* bytecode strings: zero-length, one byte, not hexadecimal
Bytecodes == {"0x", "0x60", "0xzz"}
BytecodeLength(bytecode) == IF bytecode = "0x" THEN 0 ELSE 1
wellFormedHex(bytecode) == bytecode # "0xzz"

DeriveOps == {"calculateContractAddress", "calculateContractAddressTx",
              "deployContract", "deployRetailerContract"}

\* the address the ledger library derives for a deployment: a function of
\* the transaction's fields
LibAddress(salt, shardId, bytecode, chainId) ==
  [tag |-> "derived", salt |-> salt, shard |-> shardId, code |-> bytecode, chain |-> chainId]
\* schemas.ts:176  to: new Uint8Array(20)
ZeroAddress == [tag |-> "zero", salt |-> 0, shard |-> 0, code |-> "", chain |-> 0]
NoAddress == [tag |-> "none", salt |-> 0, shard |-> 0, code |-> "", chain |-> 0]

\* the outcome of one derivation: an address or the error raised, and the
\* salt the transaction was built with
Derived(kind, address, salt) == [kind |-> kind, address |-> address, salt |-> salt]

\* whether the ledger library refuses to build the transaction: it cannot
\* decode malformed hexadecimal; a validating library (strict) also refuses a
\* salt outside 0..SaltLimit-1 and zero-length bytecode
LibRejects(strict, salt, bytecode) ==
  \/ ~wellFormedHex(bytecode)
  \/ strict /\ (salt < 0 \/ salt >= SaltLimit \/ BytecodeLength(bytecode) = 0)

\* schemas.ts:164-188: the envelope is built with an all-zero `to`, which is
\* what is returned; an error of hexToBytes is rethrown as
\* ContractDeploymentError. shardId, salt and abi are not used.
calculateContractAddress(shardId, salt, bytecode, chainId) ==
  IF ~wellFormedHex(bytecode)
    THEN Derived("ContractDeploymentError", NoAddress, salt)
    ELSE Derived("address", ZeroAddress, salt)

\* part_004:103-125: the address of an unsent externalDeploymentTransaction
calculateContractAddressTx(strict, shardId, salt, bytecode, chainId) ==
  IF LibRejects(strict, salt, bytecode)
    THEN Derived("LibraryError", NoAddress, salt)
    ELSE Derived("address", LibAddress(salt, shardId, bytecode, chainId), salt)

\* variant: the derivation draws its own salt
derivationSaltRandom(salt, random) == random

\* part_004:113 and schemas.ts:166: the salt is the caller's argument
derivationSalt(salt, random) == salt

\* schemas.ts:490 (salt: undefined) and 262, 326: deployContract always builds
\* the transaction with a generated salt
deployContractSalt(given, salt, random) == random

\* part_000:247  args.salt ? BigInt(args.salt) : this.generateRandomSalt()
deployRetailerSalt(given, salt, random) ==
  IF given /\ salt # 0 THEN salt ELSE random

InitProvider ==
  /\ sreq = [op |-> "none", strict |-> FALSE, saltGiven |-> FALSE, salt |-> 0,
             bytecode |-> "0x60", shardId |-> 1, chainId |-> 0]
  /\ clients = {}
  /\ derived = << >>
  /\ InitAction
  /\ areq = NoRequest
  /\ apc = "idle"
  /\ InitIdle

\* the requests of the derivation runs: the two calculateContractAddress
\* functions take a salt argument, the deployment actions an optional one
DeriveRequests ==
  { r \in [op : DeriveOps, strict : BOOLEAN, saltGiven : BOOLEAN, salt : SaltInputs,
           bytecode : Bytecodes, shardId : {1, 2}, chainId : {0, 1}] :
      /\ (~r.saltGiven => r.salt = 0)
      /\ (r.op \in {"calculateContractAddress", "calculateContractAddressTx"} => r.saltGiven) }

\* schemas.ts:101-114
getClient ==
  /\ sreq.op # "none"
  /\ sreq.shardId \notin clients
  /\ clients' = clients \cup {sreq.shardId}
  /\ UNCHANGED <<sreq, derived>>
  /\ UNCHANGED <<dvars, cvars, avars, tvars>>

\* schemas.ts:164-188
CalculateContractAddress ==
  /\ sreq.op = "calculateContractAddress"
  /\ Len(derived) < MaxDerivations
  /\ \E random \in RandomSalts :
       derived' = Append(derived,
         calculateContractAddress(sreq.shardId, derivationSalt(sreq.salt, random),
                                  sreq.bytecode, sreq.chainId))
  /\ UNCHANGED <<sreq, clients>>
  /\ UNCHANGED <<dvars, cvars, avars, tvars>>

\* part_004:103-125
CalculateContractAddressTx ==
  /\ sreq.op = "calculateContractAddressTx"
  /\ Len(derived) < MaxDerivations
  /\ \E random \in RandomSalts :
       derived' = Append(derived,
         calculateContractAddressTx(sreq.strict, sreq.shardId,
                                    derivationSalt(sreq.salt, random),
                                    sreq.bytecode, sreq.chainId))
  /\ UNCHANGED <<sreq, clients>>
  /\ UNCHANGED <<dvars, cvars, avars, tvars>>

\* schemas.ts:483-491 and 262-279: the salt and the address of the
\* transaction deployContract builds for a request
DeployContractBuild ==
  /\ sreq.op = "deployContract"
  /\ Len(derived) < MaxDerivations
  /\ \E random \in RandomSalts :
       derived' = Append(derived,
         calculateContractAddressTx(sreq.strict, sreq.shardId,
                                    deployContractSalt(sreq.saltGiven, sreq.salt, random),
                                    sreq.bytecode, sreq.chainId))
  /\ clients' = clients \cup {sreq.shardId}
  /\ UNCHANGED sreq
  /\ UNCHANGED <<dvars, cvars, avars, tvars>>

\* part_000:237-267: the salt and the address of the transaction
\* deployRetailerContract builds for a request
DeployRetailerBuild ==
  /\ sreq.op = "deployRetailerContract"
  /\ Len(derived) < MaxDerivations
  /\ \E random \in RandomSalts :
       derived' = Append(derived,
         calculateContractAddressTx(sreq.strict, sreq.shardId,
                                    deployRetailerSalt(sreq.saltGiven, sreq.salt, random),
                                    sreq.bytecode, sreq.chainId))
  /\ clients' = clients \cup {sreq.shardId}
  /\ UNCHANGED sreq
  /\ UNCHANGED <<dvars, cvars, avars, tvars>>

NextDerive ==
  \/ getClient
  \/ CalculateContractAddress
  \/ CalculateContractAddressTx
  \/ DeployContractBuild
  \/ DeployRetailerBuild

Next ==
  \/ ValidateShard
  \/ CheckShardActive
  \/ GetGasPrice
  \/ GetChainId
  \/ IntGetGasPrice
  \/ IntGenerateSmartAccount
  \/ IntGetBalance
  \/ IntInitWait
  \/ IntDeployContract
  \/ IntTopUp
  \/ IntSettle
  \/ ExtPrepare
  \/ EafInitialBalance
  \/ EafTopUp
  \/ EafRecheck
  \/ EafDelay
  \/ ExtAfterFunding
  \/ ExtSend
  \/ WaitTillCompleted
  \/ GetReceipt
  \/ GetCode
  \/ WaitSleep

vars == <<dvars, cvars, svars>>

Init == InitDeploy /\ InitChain /\ InitProvider

\* one deployContract request
Spec == Init /\ [][Next]_vars

\* one run of the supply-chain deployment script
InitChainRun ==
  /\ InitDeploy
  /\ InitChain
  /\ InitProvider
  /\ args = [contractType |-> "COUNTER", shardId |-> 1, useInternalDeployment |-> FALSE]

SpecChain == InitChainRun /\ [][NextChain]_vars

\* repeated derivations and deployments for one request
InitDeriveRun ==
  /\ InitDeploy
  /\ InitChain
  /\ args = [contractType |-> "COUNTER", shardId |-> 1, useInternalDeployment |-> FALSE]
  /\ sreq \in DeriveRequests
  /\ clients = {}
  /\ derived = << >>
  /\ InitAction
  /\ areq = NoRequest
  /\ apc = "idle"
  /\ InitIdle

SpecDerive == InitDeriveRun /\ [][NextDerive]_vars

\* one request to an action of the account or supply-chain provider
InitActionRun ==
  /\ InitDeploy
  /\ InitChain
  /\ args = [contractType |-> "COUNTER", shardId |-> 1, useInternalDeployment |-> FALSE]
  /\ sreq = [op |-> "none", strict |-> FALSE, saltGiven |-> FALSE, salt |-> 0,
             bytecode |-> "0x60", shardId |-> 1, chainId |-> 0]
  /\ clients = {}
  /\ derived = << >>
  /\ InitAction
  /\ areq \in ActionRequests
  /\ apc = "start"
  /\ InitIdle

SpecAction == InitActionRun /\ [][NextAction]_vars

\* one draw of a salt
InitSaltDraw ==
  /\ InitDeploy
  /\ InitChain
  /\ args = [contractType |-> "COUNTER", shardId |-> 1, useInternalDeployment |-> FALSE]
  /\ sreq = [op |-> "none", strict |-> FALSE, saltGiven |-> FALSE, salt |-> 0,
             bytecode |-> "0x60", shardId |-> 1, chainId |-> 0]
  /\ clients = {}
  /\ derived = << >>
  /\ InitAction
  /\ areq = NoRequest
  /\ apc = "idle"
  /\ InitSaltRun
  /\ InitAccountProvider
  /\ treq = NoSessionRequest
  /\ InitAlone

SpecSalt == InitSaltDraw /\ [][NextSalt]_vars

\* a session of the account provider
InitSessionRun ==
  /\ InitDeploy
  /\ InitChain
  /\ args = [contractType |-> "COUNTER", shardId |-> 1, useInternalDeployment |-> FALSE]
  /\ sreq = [op |-> "none", strict |-> FALSE, saltGiven |-> FALSE, salt |-> 0,
             bytecode |-> "0x60", shardId |-> 1, chainId |-> 0]
  /\ clients = {}
  /\ derived = << >>
  /\ InitAction
  /\ areq = NoRequest
  /\ apc = "idle"
  /\ InitIdle

SpecSession == InitSessionRun /\ [][NextSession]_vars

\* ------------------------------------------- two concurrent deployContract
\* schemas.ts:396-597: everything deployContract and the methods it calls
\* declare with const or let lives in the invocation; one invocation's locals
Locals ==
  [args |-> args, pc |-> pc, path |-> path, gasPrice |-> gasPrice,
   feeCredit |-> feeCredit, intFeeCredit |-> intFeeCredit,
   requiredAmount |-> requiredAmount, i |-> i, lastBalance |-> lastBalance,
   fundingSuccess |-> fundingSuccess, hash |-> hash,
   contractAddress |-> contractAddress, attempt |-> attempt,
   isDeployed |-> isDeployed, result |-> result, log |-> log]

\* schemas.ts:396: the locals of an invocation that has not run yet
Fresh(a) ==
  [args |-> a, pc |-> "validate", path |-> "none", gasPrice |-> NoValue,
   feeCredit |-> NoValue, intFeeCredit |-> NoValue, requiredAmount |-> NoValue,
   i |-> 0, lastBalance |-> NoValue, fundingSuccess |-> "none", hash |-> "",
   contractAddress |-> "", attempt |-> 0, isDeployed |-> "none",
   result |-> NoResult, log |-> << >>]

\* the two requests: different contract types, hence different bytecode and
\* different derived addresses
PairFirst == [contractType |-> "COUNTER", shardId |-> 1, useInternalDeployment |-> TRUE]
PairSecond == [contractType |-> "TOKEN", shardId |-> shardCount, useInternalDeployment |-> FALSE]

PairLogBound(r) == IF r = 1 THEN MaxLogFirst ELSE MaxLogSecond

\* the running request may take one more step
PairRoom == cur \in {1, 2} /\ Len(log) < PairLogBound(cur)

\* variant: requiredAmount is a field of the provider, written by both requests
SwapSharingRequiredAmount ==
  /\ cur \in {1, 2}
  /\ other.pc # "done"
  /\ args' = other.args
  /\ pc' = other.pc
  /\ path' = other.path
  /\ gasPrice' = other.gasPrice
  /\ feeCredit' = other.feeCredit
  /\ intFeeCredit' = other.intFeeCredit
  /\ i' = other.i
  /\ lastBalance' = other.lastBalance
  /\ fundingSuccess' = other.fundingSuccess
  /\ hash' = other.hash
  /\ contractAddress' = other.contractAddress
  /\ attempt' = other.attempt
  /\ isDeployed' = other.isDeployed
  /\ result' = other.result
  /\ log' = other.log
  /\ other' = Locals
  /\ cur' = 3 - cur
  /\ UNCHANGED <<requiredAmount, cvars, sreq, clients, derived, avars, gvars, kvars, pvars>>

\* an await of the running request yields to the event loop (every step of
\* schemas.ts:396-597 modelled here ends at an await), which resumes the
\* waiting request with its own locals
Swap ==
  /\ cur \in {1, 2}
  /\ other.pc # "done"
  /\ args' = other.args
  /\ pc' = other.pc
  /\ path' = other.path
  /\ gasPrice' = other.gasPrice
  /\ feeCredit' = other.feeCredit
  /\ intFeeCredit' = other.intFeeCredit
  /\ requiredAmount' = other.requiredAmount
  /\ i' = other.i
  /\ lastBalance' = other.lastBalance
  /\ fundingSuccess' = other.fundingSuccess
  /\ hash' = other.hash
  /\ contractAddress' = other.contractAddress
  /\ attempt' = other.attempt
  /\ isDeployed' = other.isDeployed
  /\ result' = other.result
  /\ log' = other.log
  /\ other' = Locals
  /\ cur' = 3 - cur
  /\ UNCHANGED <<cvars, sreq, clients, derived, avars, gvars, kvars, pvars>>

InitPair ==
  /\ InitDeploy
  /\ args = PairFirst
  /\ InitChain
  /\ sreq = [op |-> "none", strict |-> FALSE, saltGiven |-> FALSE, salt |-> 0,
             bytecode |-> "0x60", shardId |-> 1, chainId |-> 0]
  /\ clients = {}
  /\ derived = << >>
  /\ InitAction
  /\ areq = NoRequest
  /\ apc = "idle"
  /\ InitSalt
  /\ InitAccountProvider
  /\ treq = NoSessionRequest
  /\ other = Fresh(PairSecond)
  /\ cur = 1

NextPair ==
  \/ Swap
  \/ PairRoom /\ ValidateShard
  \/ PairRoom /\ CheckShardActive
  \/ PairRoom /\ GetGasPrice
  \/ PairRoom /\ GetChainId
  \/ PairRoom /\ IntGetGasPrice
  \/ PairRoom /\ IntGenerateSmartAccount
  \/ PairRoom /\ IntGetBalance
  \/ PairRoom /\ IntInitWait
  \/ PairRoom /\ IntDeployContract
  \/ PairRoom /\ IntTopUp
  \/ PairRoom /\ IntSettle
  \/ PairRoom /\ ExtPrepare
  \/ PairRoom /\ EafInitialBalance
  \/ PairRoom /\ EafTopUp
  \/ PairRoom /\ EafRecheck
  \/ PairRoom /\ EafDelay
  \/ PairRoom /\ ExtAfterFunding
  \/ PairRoom /\ ExtSend
  \/ PairRoom /\ WaitTillCompleted
  \/ PairRoom /\ GetReceipt
  \/ PairRoom /\ GetCode
  \/ PairRoom /\ WaitSleep

\* two deployContract requests in flight on one provider
SpecPair == InitPair /\ [][NextPair]_vars

\* ===================================================== history operators
\* positions of the events of kind e made by path p
Idx(l, e, p) == {k \in 1..Len(l) : l[k].ev = e /\ l[k].path = p}
Paths == {"internal", "external"}
Greatest(S) == CHOOSE m \in S : \A n \in S : n <= m

\* deployContractInternal raised and the catch of line 538 ran
InternalRaised == Idx(log, "fallback", "internal") # {}
\* waitForContractDeployment returned false for the internal transaction
InternalNotConfirmed == path = "internal" /\ isDeployed = "false"
\* calls of deployContractExternal (line 544)
ExternalInvocations == Idx(log, "externalCall", "external")
\* code reads of a path, the raising ones included
CodeReads(p) == Idx(log, "code", p) \cup Idx(log, "codeError", p)

\* a Success receipt for hash h was observed and, later, a code read at
\* address a returned at least one byte of code
ObservedConfirmed(h, a) ==
  \E j \in 1..Len(log) :
    /\ log[j].ev = "receipt" /\ log[j].ref = h /\ log[j].val = "Success"
    /\ \E k \in (j + 1)..Len(log) :
         log[k].ev = "code" /\ log[k].ref = a /\ log[k].val > 0

\* ================================================================ claims

C2_SuccessOnlyIfConfirmed ==
  /\ result.kind = "success" =>
       /\ result.hash # "" /\ result.address # ""
       /\ ObservedConfirmed(result.hash, result.address)
       /\ \A k \in 1..Len(log) :
            (log[k].ev = "receipt" /\ log[k].ref = result.hash) => log[k].val = "Success"
  /\ (pc = "done" /\ isDeployed # "true") => result.kind # "success"

\* an internal deployment confirmed after empty code reads
C2_Witness ==
  /\ result.kind = "success"
  /\ result.label = "internal"
  /\ Cardinality(CodeReads("internal")) > 2

\* C3: in the supply-chain script the Manufacturer deployment is never
\* submitted, and the Retailer address never placed into its constructor
\* arguments, before the Retailer is confirmed (its transaction completed and
\* non-empty code read at its address); if the Retailer's wait fails or its
\* code never appears within the polling budget, the Manufacturer is never
\* submitted.
C3_ManufacturerAfterRetailerConfirmed ==
  LET mSubmits == Idx(clog, "submit", "manufacturer")
      rDone    == Idx(clog, "waitCompleted", "retailer")
      rReads   == {k \in Idx(clog, "codeRead", "retailer") : clog[k].ref = retailerAddress}
  IN /\ \A m \in mSubmits :
          /\ isRetailerDeployed /\ retailerCodeSeen
          /\ \E d \in rDone : \E r \in rReads : d < r /\ r < m
     /\ manufacturerArgs # NoArgs =>
          /\ mSubmits # {}
          /\ isRetailerDeployed /\ retailerCodeSeen
          /\ manufacturerArgs[2] = retailerAddress
     /\ (Idx(clog, "waitError", "retailer") # {} \/ (cpc = "end" /\ ~isRetailerDeployed)) =>
          /\ mSubmits = {}
          /\ manufacturerArgs = NoArgs

\* the Retailer's code appeared after some empty reads and the Manufacturer
\* was submitted
C3_Witness ==
  /\ Idx(clog, "submit", "manufacturer") # {}
  /\ retailerRetries > 1
  /\ manufacturerArgs # NoArgs

\* C4: ensureAdequateFunding returns true only if the most recent balance
\* read of that invocation returned at least requiredAmount; an accepted
\* faucet request alone is never taken as success.
C4_TrueOnlyAfterSufficientRead ==
  fundingSuccess = "true" =>
    LET reads == Idx(log, "balance", "external") \cup Idx(log, "balanceError", "external")
    IN /\ reads # {}
       /\ \A e \in ExternalInvocations : e < Greatest(reads)
       /\ log[Greatest(reads)].ev = "balance"
       /\ log[Greatest(reads)].ref = contractAddress
       /\ log[Greatest(reads)].val >= requiredAmount
       /\ \A f \in Idx(log, "faucet", "external") : f < Greatest(reads)

\* funding succeeded on the third faucet request
C4_Witness ==
  /\ fundingSuccess = "true"
  /\ Cardinality(Idx(log, "faucet", "external")) = 3

\* the first read of an ensureAdequateFunding invocation returned a balance
\* of at least requiredAmount
FirstReadSufficient ==
  \E e \in ExternalInvocations :
    /\ Len(log) > e
    /\ log[e + 1].ev = "balance"
    /\ log[e + 1].val >= requiredAmount

\* C5: if the first balance read of ensureAdequateFunding shows at least
\* requiredAmount, it returns true at once, with no faucet request and no wait
\* in that invocation.
C5_FastPath ==
  FirstReadSufficient =>
    /\ fundingSuccess = "true"
    /\ pc \notin {"eaf_topup", "eaf_recheck", "eaf_delay"}
    /\ Idx(log, "faucet", "external") = {}
    /\ \A k \in Idx(log, "sleep", "external") : log[k].val # 2
    /\ Cardinality(Idx(log, "balance", "external")) = 1

\* the fast path was taken with a positive requirement and the deployment
\* went on to submit
C5_Witness ==
  /\ FirstReadSufficient
  /\ requiredAmount > 0
  /\ Idx(log, "submit", "external") # {}

\* C6 as stated: in both paths every faucet request of the deployment
\* precedes the submission, and the submission precedes the first code read.
C6_Original ==
  \A p \in Paths :
    LET sents == Idx(log, "submit", p)
    IN /\ \A f \in Idx(log, "faucet", p) : \A sent \in sents : f < sent
       /\ \A c \in CodeReads(p) : \E sent \in sents : sent < c

\* C6 (amended): in the external path every faucet request precedes the
\* submission; in both paths the submission precedes the first code read of
\* that path; in the internal path the deployer account is created before the
\* submission, and the one faucet request for the contract address is made
\* after the submission and before the first code read.
C6_FundingSubmissionOrder ==
  /\ \A f \in Idx(log, "faucet", "external") :
       \A sent \in Idx(log, "submit", "external") : f < sent
  /\ \A p \in Paths :
       LET sents == Idx(log, "submit", p)
       IN \A c \in CodeReads(p) : \E sent \in sents : sent < c
  /\ LET sents   == Idx(log, "submit", "internal")
         faucets == Idx(log, "faucet", "internal")
     IN /\ \A sent \in sents :
             \E a \in Idx(log, "createAccount", "internal") : a < sent
        /\ Cardinality(faucets) <= 1
        /\ \A f \in faucets :
             /\ \E sent \in sents : sent < f
             /\ \A c \in CodeReads("internal") : f < c

\* after a rejected internal top-up the external path funded the address,
\* submitted and read the code
C6_Witness ==
  /\ Idx(log, "faucet", "internal") # {}
  /\ Idx(log, "faucet", "external") # {}
  /\ Idx(log, "code", "external") # {}

\* the amount a path's funded target needs: the external path's
\* requiredAmount, the internal path's fee credit
RequiredOf(p) == IF p = "external" THEN requiredAmount ELSE intFeeCredit

\* C7 as stated: a deployment transaction is submitted only after a balance
\* read showed the path's funded target holding at least the required amount.
C7_Original ==
  \A p \in Paths :
    \A sent \in Idx(log, "submit", p) :
      \E b \in Idx(log, "balance", p) : b < sent /\ log[b].val >= RequiredOf(p)

\* C7 (amended): in the external path a deployment transaction is submitted
\* only after a balance read of the pre-derived contract address showed at
\* least the required amount, and never when funding ended unsuccessful; in
\* the internal path the balance of the deployer account is read before the
\* submission but its value is not compared with any required amount, and no
\* transaction is submitted when the account creation fails.
C7_SubmitOnlyWhenFunded ==
  /\ \A sent \in Idx(log, "submit", "external") :
       /\ fundingSuccess = "true"
       /\ \E b \in Idx(log, "balance", "external") :
            /\ b < sent
            /\ log[b].ref = contractAddress
            /\ log[b].val >= requiredAmount
            /\ \A f \in Idx(log, "faucet", "external") : f < b
  /\ fundingSuccess = "false" => Idx(log, "submit", "external") = {}
  /\ \A sent \in Idx(log, "submit", "internal") :
       \E a \in Idx(log, "createAccount", "internal") :
         \E b \in Idx(log, "balance", "internal") : a < b /\ b < sent

\* the external path submitted after topping the address up
C7_Witness ==
  /\ Idx(log, "submit", "external") # {}
  /\ Idx(log, "faucet", "external") # {}
  /\ ~InternalRaised

\* ensureAdequateFunding is running
InEaf == pc \in {"eaf_balance", "eaf_topup", "eaf_recheck", "eaf_delay"}
EafStep == EafInitialBalance \/ EafTopUp \/ EafRecheck \/ EafDelay
\* a bound on the steps ensureAdequateFunding still takes
EafMeasure ==
  IF pc = "eaf_balance" THEN 13
  ELSE IF pc = "eaf_topup" THEN 3 * (3 - i) + 3
  ELSE IF pc = "eaf_recheck" THEN 3 * (3 - i) + 2
  ELSE IF pc = "eaf_delay" THEN 3 * (3 - i) + 1
  ELSE 0

\* C8: for every behaviour of the faucet and of the balance read,
\* ensureAdequateFunding makes at most 3 faucet requests, always has a next
\* step until it returns, takes a bounded number of steps, and returns either
\* success or failure.
C8_FundingBounded ==
  /\ [](Cardinality(Idx(log, "faucet", "external")) <= 3)
  /\ [](InEaf => ENABLED EafStep)
  /\ [](InEaf => EafMeasure > 0)
  /\ [][InEaf => EafMeasure' < EafMeasure]_vars
  /\ [][(InEaf /\ ~InEaf') => fundingSuccess' \in {"true", "false"}]_vars

\* the faucet rejected or under-funded all three requests
C8_Witness ==
  /\ fundingSuccess = "false"
  /\ Cardinality(Idx(log, "faucet", "external")) = 3
  /\ Idx(log, "balance", "external") # {}

\* waitForContractDeployment is running
InWait == pc \in {"wait_completed", "wait_receipt", "wait_code", "wait_sleep"}
WaitStep == WaitTillCompleted \/ GetReceipt \/ GetCode \/ WaitSleep
\* a bound on the steps waitForContractDeployment still takes
WaitMeasure ==
  IF pc = "wait_completed" THEN 63
  ELSE IF pc = "wait_receipt" THEN 62
  ELSE IF pc = "wait_code" THEN 2 * (31 - attempt) + 1
  ELSE IF pc = "wait_sleep" THEN 2 * (31 - attempt)
  ELSE 0

ReportsTransaction ==
  result.kind \in {"success", "verification_timed_out", "funding_issues"}

\* C10 as stated: after a fallback the result is labelled external and
\* carries the external transaction's hash and address.
C10_Original ==
  (InternalRaised /\ ReportsTransaction) =>
    /\ result.label = "external"
    /\ \E sent \in Idx(log, "submit", "external") : log[sent].ref = result.hash
    /\ \E e \in ExternalInvocations : log[e].ref = result.address

\* C10 (amended): a strategy named in the result is the path that submitted
\* the reported hash, derived the reported address and whose confirmation was
\* observed; after a fallback every result carries the external transaction's
\* hash and address, never the internal attempt's, a success result is
\* labelled external, and a not-confirmed result names no strategy.
C10_LabelMatchesPath ==
  /\ result.label # "none" =>
       /\ result.label = path
       /\ result.kind = "success"
       /\ \E sent \in Idx(log, "submit", result.label) : log[sent].ref = result.hash
       /\ \A sent \in Idx(log, "submit", IF result.label = "internal" THEN "external" ELSE "internal") :
            log[sent].ref # result.hash
       /\ \E c \in Idx(log, "code", result.label) :
            log[c].ref = result.address /\ log[c].val > 0
  /\ (InternalRaised /\ ReportsTransaction) =>
       /\ result.label # "internal"
       /\ \E sent \in Idx(log, "submit", "external") : log[sent].ref = result.hash
       /\ \E e \in ExternalInvocations : log[e].ref = result.address
       /\ result.hash # "hInt" /\ result.address # "aInt"
       /\ (result.kind = "success" <=> result.label = "external")
  /\ (ReportsTransaction /\ result.kind # "success") => result.label = "none"

\* the internal attempt submitted and then raised; the external path was
\* confirmed and reported
C10_Witness ==
  /\ InternalRaised
  /\ Idx(log, "submit", "internal") # {}
  /\ result.kind = "success"
  /\ result.label = "external"

\* the receipt read by the wait of path p had status st
ReceiptWas(p, st) == \E k \in Idx(log, "receipt", p) : log[k].val = st
\* the wait of path p used up its code reads and every one returned empty code
CodeBudgetExhausted(p) ==
  /\ Cardinality(Idx(log, "code", p)) = MaxCodeAttempts
  /\ Idx(log, "codeError", p) = {}
  /\ \A k \in Idx(log, "code", p) : log[k].val = 0

\* C11 as stated: when confirmation ends not-confirmed, deployContract reports
\* insufficient funds only when the receipt status was InsufficientFunds, and
\* timed out only when the code-read budget was exhausted with empty code, in
\* the internal and in the external path (no returned text reports a failed
\* transaction, so that part holds of no text).
C11_Original ==
  (pc = "done" /\ isDeployed = "false") =>
    /\ result.kind = "funding_issues" => ReceiptWas(path, "InsufficientFunds")
    /\ result.kind = "verification_timed_out" => CodeBudgetExhausted(path)

\* C12: when the Retailer is confirmed, the Manufacturer deployment is
\* submitted with constructor arguments holding exactly the address returned
\* by the Retailer's deployment - the address whose code was read - on the
\* Manufacturer's shard, with a fee credit computed from the gas price
\* queried for that shard.
C12_ManufacturerArgs ==
  \A m \in Idx(clog, "submit", "manufacturer") :
    LET prices == Idx(clog, "gasPriceResult", "manufacturer")
        reads  == Idx(clog, "codeRead", "retailer")
    IN /\ isRetailerDeployed
       /\ manufacturerArgs = <<"pubkey", retailerAddress>>
       /\ \A r \in Idx(clog, "submit", "retailer") : clog[r].ref = manufacturerArgs[2]
       /\ \E r \in reads : r < m /\ clog[Greatest(reads)].ref = manufacturerArgs[2]
       /\ \A r \in reads : clog[r].ref = manufacturerArgs[2]
       /\ clog[m - 1].ev = "deployRequest"
       /\ clog[m - 1].ref = retailerAddress
       /\ clog[m - 1].val = MANUFACTURER_SHARD_ID
       /\ \A q \in Idx(clog, "gasPrice", "manufacturer") : clog[q].val = MANUFACTURER_SHARD_ID
       /\ Cardinality(prices) = 1
       /\ \A q \in prices :
            /\ q < m
            /\ clog[m].val = InternalGasMultiplier * clog[q].val
            /\ manufacturerFeeCredit = InternalGasMultiplier * clog[q].val

\* the Manufacturer was submitted for the second Retailer address, at a gas
\* price other than the one the Retailer was deployed at
C12_Witness ==
  /\ Idx(clog, "submit", "manufacturer") # {}
  /\ retailerAddress = "0xR2"
  /\ manufacturerFeeCredit # retailerFeeCredit
  /\ manufacturerFeeCredit > 0

\* the multiplier table of the claim, as numerator and denominator
ClassNumerator(contractType) ==
  IF contractType = "TOKEN" THEN 2 ELSE IF contractType = "NFT" THEN 5 ELSE 12
ClassDenominator(contractType) ==
  IF contractType = "TOKEN" THEN 1 ELSE IF contractType = "NFT" THEN 2 ELSE 10

\* C13 as stated: the fee credit computed by deployContract equals the gas
\* price times the class multiplier as an exact rational on integers:
\* g*12/10 for the generic class, g*2 for TOKEN, g*5/2 for NFT (the product
\* is formed first and the quotient taken once, rounded down to an integer).
C13_Original ==
  feeCredit # NoValue =>
    feeCredit = (gasPrice * ClassNumerator(args.contractType))
                  \div ClassDenominator(args.contractType)

\* ensureAdequateFunding used up its schedule without a sufficient balance
FundingExhausted ==
  /\ fundingSuccess = "false"
  /\ i = Len(attempts(requiredAmount))

\* C14 as stated: when ensureAdequateFunding exhausts its schedule without
\* reaching the required balance, the caller of deployContract gets a returned
\* failure result, not a raised exception.
C14_Original ==
  (pc = "done" /\ FundingExhausted) =>
    /\ result.kind # "thrown"
    /\ result.kind # "success"

\* a collaborator of waitForContractDeployment failed or answered badly
WaitTrouble ==
  \E k \in 1..Len(log) :
    \/ log[k].ev \in {"waitError", "receiptError", "codeError"}
    \/ log[k].ev = "receipt" /\ log[k].val # "Success"

\* C15: waitForContractDeployment never raises: for every collaborator
\* outcome (wait-for-completion error, missing receipt, InsufficientFunds
\* receipt, failed receipt, raising or empty code read) it returns a boolean
\* to deployContract, which then returns a text.
C15_WaitNeverRaises ==
  /\ [][InWait => (InWait' \/ (/\ isDeployed' \in {"true", "false"}
                               /\ result'.kind # "thrown"))]_vars
  /\ [](WaitTrouble => (/\ ~InWait
                        /\ isDeployed = "false"
                        /\ result.kind \in {"verification_timed_out", "funding_issues"}))

\* a code read raised after two empty reads and the wait returned false
C15_Witness ==
  /\ Idx(log, "codeError", path) # {}
  /\ Cardinality(Idx(log, "code", path)) = 2
  /\ isDeployed = "false"
  /\ pc = "done"

\* positions of the failed gas-price queries made at call site r of path p
GasFailures(p, r) == {k \in Idx(log, "gasPriceError", p) : log[k].ref = r}
\* events that query the ledger for a price, create an account, ask the
\* faucet or submit a transaction
FollowUpEvents ==
  {"gasPrice", "gasPriceError", "createAccount", "faucet", "submit"}

\* C16 as stated: if a gas-price query of deployContract (lines 414-458) fails,
\* the request ends with a failure reported to the caller; no further
\* gas-price query, account creation, faucet request or submission follows.
C16_Original ==
  \A e \in Idx(log, "gasPriceError", "none") :
    /\ \A k \in (e + 1)..Len(log) : log[k].ev \notin FollowUpEvents
    /\ pc = "done" => result.kind = "thrown"

\* C16 (amended): if the gas-price query that prices the deployment (line 441)
\* fails, deployContract raises to the caller at once: no further gas-price
\* query, account creation, faucet request or submission follows. A failure of
\* the preliminary shard-activity query (line 428) is ignored and the price is
\* queried exactly once more; a failure of the internal path's own query
\* (line 319) hands the request to the external path before any internal
\* account creation or submission.
C16_GasPriceFailure ==
  [](LET failures == {k \in 1..Len(log) : log[k].ev = "gasPriceError"}
        queries  == {k \in 1..Len(log) :
                       log[k].path = "none" /\ log[k].ev \in {"gasPrice", "gasPriceError"}}
    IN /\ Cardinality(queries) <= 2
       /\ \A e \in failures :
            /\ (log[e].path = "none" /\ log[e].ref = "price") =>
                 /\ e = Len(log)
                 /\ pc = "done"
                 /\ result.kind = "thrown"
            /\ (log[e].path = "none" /\ log[e].ref = "check") =>
                 /\ e = 1
                 /\ Len(log) > 1 => (/\ log[2].ev \in {"gasPrice", "gasPriceError"}
                                     /\ log[2].path = "none"
                                     /\ log[2].ref = "price")
                 /\ pc \in {"gas", "done"} \/ Len(log) > 1
            /\ log[e].path = "internal" =>
                 /\ Len(log) > e /\ log[e + 1].ev = "fallback"
                 /\ Idx(log, "createAccount", "internal") = {}
                 /\ Idx(log, "submit", "internal") = {}
                 /\ Idx(log, "faucet", "internal") = {}
                 /\ pc = "ext_start" \/ ExternalInvocations # {})

\* the shard-activity query failed, the price query succeeded and the
\* external path went on to fund and submit
C16_Witness ==
  /\ GasFailures("none", "check") # {}
  /\ Idx(log, "faucet", "external") # {}
  /\ Idx(log, "submit", "external") # {}

\* C17: for a shardId outside 1..4, deployContract reports the invalid shard
\* to the caller immediately: no gas-price or chain-id query, no account
\* creation, no faucet request and no submission is performed, and nothing is
\* retried; a shardId inside 1..4 is never reported as unavailable.
C17_InvalidShard ==
  /\ [](args.shardId \notin 1..4 =>
         /\ log = << >>
         /\ pc \in {"validate", "done"}
         /\ pc = "done" => result = Result("shard_unavailable", "none", "", "")
         /\ path = "none" /\ hash = "" /\ contractAddress = "")
  /\ [](args.shardId \in 1..4 => result.kind # "shard_unavailable")
  /\ [][args.shardId \notin 1..4 => pc' = "done"]_vars

\* a request for shard 5 ended with the unavailable-shard answer
C17_Witness ==
  /\ args.shardId = 5
  /\ pc = "done"
  /\ result.kind = "shard_unavailable"

\* the request names a salt outside the accepted range 0..SaltLimit-1
SaltOutOfRange == sreq.saltGiven /\ (sreq.salt < 0 \/ sreq.salt >= SaltLimit)
\* the request's bytecode is zero-length
BytecodeEmpty == BytecodeLength(sreq.bytecode) = 0

\* C18 as stated: address derivation for a deployment fails (InvalidSalt)
\* when the salt is outside the accepted range and fails (EmptyBytecode) when
\* the bytecode is zero-length, so that nothing is funded or submitted for
\* the request. Any raised error is counted as the failure.
C18_Original ==
  (SaltOutOfRange \/ BytecodeEmpty) =>
    \A k \in 1..Len(derived) : derived[k].kind # "address"

\* C19 as stated: when the caller supplies a salt of the accepted range, 0
\* included, the deployment transaction is built with exactly that salt, so
\* that repeated requests target the same address; a random salt is
\* generated only when the caller supplies none.
C19_Original ==
  (/\ sreq.op \in {"deployContract", "deployRetailerContract"}
   /\ sreq.saltGiven
   /\ ~SaltOutOfRange) =>
    \A k \in 1..Len(derived) :
      /\ derived[k].salt = sreq.salt
      /\ derived[k].address = derived[1].address

ExternalFailures ==
  {k \in 1..Len(log) :
     /\ log[k].path = "external"
     /\ \/ log[k].ev \in {"sendError", "waitError", "receiptError", "codeError"}
        \/ log[k].ev = "receipt" /\ log[k].val # "Success"}

\* C21: the external path runs at most once per deployContract request: once
\* its funding, submission or confirmation has failed, no faucet request, no
\* submission and no other collaborator call follows, and the request ends
\* in a result that is not success.
C21_ExternalOnce ==
  /\ [](Cardinality(ExternalInvocations) <= 1)
  /\ [](\A k \in ExternalFailures :
          /\ k = Len(log)
          /\ pc = "done"
          /\ result.kind # "success")
  /\ [](fundingSuccess = "false" =>
          /\ Idx(log, "submit", "external") = {}
          /\ pc \in {"ext_funded", "done"}
          /\ pc = "done" => result.kind = "thrown")
  /\ [](CodeBudgetExhausted("external") => (pc = "done" /\ result.kind # "success"))
  /\ [][(fundingSuccess = "false" \/ ExternalFailures # {}
          \/ CodeBudgetExhausted("external")) => log' = log]_vars

\* the external path was funded by a faucet request, its submission was
\* rejected and the request ended
C21_Witness ==
  /\ Idx(log, "faucet", "external") # {}
  /\ Idx(log, "sendError", "external") # {}
  /\ pc = "done"

\* C22: the supply-chain script writes the manifest with the Retailer and the
\* Manufacturer entry only when both contracts were confirmed by a read of
\* non-empty code at their addresses; when either is not confirmed (its wait
\* failed, or its code reads were used up) the script ends without a manifest.
C22_ManifestOnlyWhenBothConfirmed ==
  /\ manifest.written =>
       /\ isRetailerDeployed /\ retailerCodeSeen
       /\ isManufacturerDeployed /\ manufacturerCodeSeen
       /\ manifest.retailer = retailerAddress /\ retailerAddress # ""
       /\ manifest.manufacturer = manufacturerAddress /\ manufacturerAddress # ""
       /\ Idx(clog, "waitCompleted", "retailer") # {}
       /\ Idx(clog, "waitCompleted", "manufacturer") # {}
  /\ ~manifest.written => Idx(clog, "writeManifest", "manufacturer") = {}
  /\ (cpc = "end" /\ (~isRetailerDeployed \/ ~isManufacturerDeployed)) =>
       manifest = NoManifest

\* the Manufacturer's code appeared after an empty read and the manifest was
\* written
C22_Witness ==
  /\ manifest.written
  /\ manufacturerRetries > 0
  /\ cpc = "end"

\* C23: deployManufacturerContract submits a Manufacturer deployment only
\* when a retailer address is supplied, and the second constructor argument
\* of the submitted deployment is that address carrying one 0x prefix (the
\* address itself when it already has the prefix); with an empty retailer
\* address it fails before any account is created or transaction submitted.
C23_ManufacturerNeedsRetailer ==
  areq.op = "deployManufacturerContract" =>
    /\ Idx(alog, "submit", "manufacturer") # {} =>
         /\ areq.address # EmptyString
         /\ Len(constructorArgs) = 2
         /\ startsWith0x(constructorArgs[2])
         /\ \/ constructorArgs[2] = areq.address
            \/ constructorArgs[2] = Prefix0x \o areq.address
         /\ startsWith0x(areq.address) => constructorArgs[2] = areq.address
    /\ Len(constructorArgs) # 0 => Idx(alog, "submit", "manufacturer") # {}
    /\ areq.address = EmptyString =>
         /\ alog = << >>
         /\ apc \in {"start", "done"}
         /\ apc = "done" => ares.kind = "thrown"

\* a Manufacturer was submitted for a retailer address given without prefix
C23_Witness ==
  /\ areq.op = "deployManufacturerContract"
  /\ areq.address = <<"a", "1">>
  /\ Idx(alog, "submit", "manufacturer") # {}
  /\ constructorArgs[2] = <<"0", "x", "a", "1">>

\* the batch request has a known source account, at least one recipient and
\* only valid amounts
BatchAccepted ==
  /\ areq.op = "batchTransferTokens"
  /\ areq.address # EmptyString
  /\ areq.known
  /\ Len(areq.recipients) >= 1
  /\ \A k \in 1..Len(areq.recipients) : areq.recipients[k].amountValid

\* C24: for batchTransferTokens with a known source account and n >= 1
\* recipients with valid amounts, exactly one sendTransaction is attempted
\* per recipient, in list order; a failed send does not prevent the sends to
\* later recipients; on return successCount + failCount = n; and the summary
\* says that all transfers completed only if failCount = 0.
C24_BatchSendsAll ==
  BatchAccepted =>
    LET n == Len(areq.recipients)
    IN /\ Len(alog) <= n
       /\ \A k \in 1..Len(alog) :
            /\ alog[k].ev = "sendTransaction"
            /\ alog[k].val = k
            /\ alog[k].ref \in {areq.recipients[k].address,
                                Prefix0x \o areq.recipients[k].address}
       /\ Len(results) = Len(alog)
       /\ successCount + failCount = Len(alog)
       /\ failCount = Cardinality({k \in 1..Len(results) : results[k] = "failed"})
       /\ apc \in {"start", "b_send", "done"}
       /\ apc # "done" => (Len(alog) < n /\ ares = NoActionResult)
       /\ apc = "done" =>
            /\ Len(alog) = n
            /\ successCount + failCount = n
            /\ ares.kind = "summary"
            /\ ares.allSucceeded => failCount = 0

\* the first of three sends failed, the other two were made and succeeded
C24_Witness ==
  /\ BatchAccepted
  /\ Len(areq.recipients) = 3
  /\ apc = "done"
  /\ results = <<"failed", "transferred", "transferred">>
  /\ ~ares.allSucceeded

\* the shard digit X of an address of the form 0x000X..., with or without the
\* prefix; the default 1 for every other string
ShardDigitOf(address) ==
  LET body == IF startsWith0x(address) THEN SubSeq(address, 3, Len(address))
                                       ELSE address
  IN IF /\ Len(body) >= 4
        /\ body[1] = "0" /\ body[2] = "0" /\ body[3] = "0"
        /\ body[4] \in {"1", "2", "3", "4"}
       THEN parseInt16(body[4])
       ELSE 1

\* C25 as stated: for an address of the form 0x000X... (with or without the
\* prefix) with X in 1..4, extractShardFromAddress returns X; for every other
\* non-empty string it returns 1; the result for a non-empty string is in 1..4.
C25_Original ==
  (areq.op = "extractShardFromAddress" /\ apc = "done"
     /\ areq.address # EmptyString) =>
    /\ ares.shard \in 1..4
    /\ ares.shard = ShardDigitOf(areq.address)

\* the faucet requests of ensureAdequateFunding, by position in the history
EafFaucets == Idx(log, "faucet", "external")
\* the balance reads of ensureAdequateFunding that returned a value
EafBalances == Idx(log, "balance", "external")

\* C26: ensureAdequateFunding requests from the faucet only after an initial
\* balance below requiredAmount, and then requiredAmount*2, requiredAmount and
\* requiredAmount/2, in that order, one per attempt; an attempt whose request
\* is rejected or whose re-check is insufficient (or fails) is followed by the
\* next amount, so that funding fails after a request only when all three
\* were made; no other amount is requested.
C26_FaucetSchedule ==
  /\ [](LET F == EafFaucets
        IN /\ Cardinality(F) <= 3
           /\ \A k \in F :
                LET j == Cardinality({m \in F : m <= k})
                IN log[k].val = (IF j = 1 THEN requiredAmount * 2
                                 ELSE IF j = 2 THEN requiredAmount
                                 ELSE requiredAmount \div 2)
           /\ F # {} =>
                \E b \in EafBalances :
                  /\ \A k \in F : b < k
                  /\ log[b].val < requiredAmount
           /\ (fundingSuccess = "false" /\ F # {}) => Cardinality(F) = 3
           /\ pc = "eaf_topup" => Cardinality(F) = i /\ i < 3)
  /\ [][(pc \in {"eaf_topup", "eaf_recheck", "eaf_delay"}
         /\ fundingSuccess' # "true" /\ Cardinality(EafFaucets') < 3) =>
           pc' \in {"eaf_topup", "eaf_recheck", "eaf_delay"}]_vars

\* three requests were made: the first rejected, the second and third
\* followed by an insufficient balance
C26_Witness ==
  /\ Cardinality(EafFaucets) = 3
  /\ Cardinality(EafBalances) = 3
  /\ fundingSuccess = "false"
  /\ requiredAmount > 0

\* C27 as stated: in ensureAdequateFunding a settle wait elapses between each
\* faucet request and the balance read that follows it.
C27_Original ==
  \A f \in EafFaucets :
    \A b \in Idx(log, "balance", "external") \cup Idx(log, "balanceError", "external") :
      (f < b /\ ~\E g \in EafFaucets : f < g /\ g < b) =>
        \E w \in Idx(log, "sleep", "external") : f < w /\ w < b

\* C28: if the initial balance is below requiredAmount and the balance read
\* after the first faucet request returns at least requiredAmount,
\* ensureAdequateFunding returns success with exactly one faucet request made
\* and exactly one balance read after it.
C28_FirstTopUpSuffices ==
  [](\A f \in EafFaucets :
       (/\ \A g \in EafFaucets : f <= g
        /\ Len(log) > f
        /\ log[f + 1].ev = "balance" /\ log[f + 1].path = "external"
        /\ log[f + 1].val >= requiredAmount) =>
         /\ f > 1 /\ log[f - 1].ev = "balance" /\ log[f - 1].val < requiredAmount
         /\ fundingSuccess = "true"
         /\ EafFaucets = {f}
         /\ {k \in 1..Len(log) : k > f /\ log[k].ev \in {"balance", "balanceError"}}
              = {f + 1}
         /\ pc \notin {"eaf_balance", "eaf_topup", "eaf_recheck", "eaf_delay"})

\* one accepted request, then a sufficient balance, and the deployment was
\* submitted
C28_Witness ==
  /\ Cardinality(EafFaucets) = 1
  /\ Cardinality(EafBalances) = 2
  /\ fundingSuccess = "true"
  /\ Idx(log, "submit", "external") # {}

\* C29 as stated: a code read that raises during polling attempt k < 30 does
\* not end the polling; unless code is found, all 30 reads are made before the
\* not-confirmed result is produced.
C29_Original ==
  \A p \in Paths :
    (pc = "done" /\ path = p /\ Idx(log, "codeError", p) # {} /\ isDeployed = "false") =>
      Cardinality(CodeReads(p)) = MaxCodeAttempts

\* the waits of the polling loop of path p: the sleeps after its receipt
WaitSleeps(p) ==
  {k \in Idx(log, "sleep", p) : \E r \in Idx(log, "receipt", p) : r < k}

\* C30 as stated: the waits between code reads start at 5 seconds, grow by 1
\* second per attempt up to 30 and never exceed 30; reads happen only after a
\* receipt with success status; at most 30 reads, no wait after the last.
C30_Original ==
  \A p \in Paths :
    \A k \in WaitSleeps(p) :
      LET j == Cardinality({m \in WaitSleeps(p) : m <= k})
      IN log[k].val = (IF j <= 26 THEN 4 + j ELSE 30)

\* C30 (amended): the waits between consecutive code reads start at 6 seconds
\* (5 plus the number of the attempt just made), grow by exactly 1 second per
\* attempt until they reach 30 seconds and never exceed 30; code reads happen
\* only after a receipt with success status; there are at most 30 reads and no
\* wait follows the last one.
C30_WaitSchedule ==
  [](\A p \in Paths :
       LET S == WaitSleeps(p)
           R == CodeReads(p)
       IN /\ \A k \in S :
               LET j == Cardinality({m \in S : m <= k})
               IN /\ log[k].val = (IF j <= 25 THEN 5 + j ELSE 30)
                  /\ log[k].val <= 30
                  /\ (k - 1) \in R
                  /\ Cardinality({m \in R : m < k}) = j
                  /\ Len(log) > k => (k + 1) \in R
          /\ R # {} => \E r \in Idx(log, "receipt", p) :
                         /\ log[r].val = "Success"
                         /\ \A k \in R : r < k
          /\ Cardinality(R) <= 30
          /\ Cardinality(S) <= 29
          /\ Cardinality(R) = 30 =>
               (\E k \in R : k = Len(log)) /\ pc = "done")

\* thirty empty reads: twenty-nine waits, the last of 30 seconds
C30_Witness ==
  /\ Cardinality(CodeReads("external")) = 30
  /\ Cardinality(WaitSleeps("external")) = 29
  /\ \E k \in WaitSleeps("external") : log[k].val = 30
  /\ \E k \in WaitSleeps("external") : log[k].val = 6
  /\ pc = "done"

\* ------------------------------------------------------------------ C34
Submissions == Idx(log, "submit", "internal") \cup Idx(log, "submit", "external")

\* C34 as stated: one request submits at most one deployment transaction,
\* counted across the internal attempt and the external path.
C34_Original == Cardinality(Submissions) <= 1

\* C34: one request submits at most one deployment transaction on each path,
\* hence at most two; a request without useInternalDeployment submits at most
\* one; two are submitted only when the internal attempt raised after its
\* submission, which only the top-up of the contract address can do, and the
\* catch then ran the external path.
C34_OneSubmissionPerPath ==
  /\ [](\A p \in Paths : Cardinality(Idx(log, "submit", p)) <= 1)
  /\ [](~args.useInternalDeployment => Cardinality(Submissions) <= 1)
  /\ [](Cardinality(Submissions) = 2 =>
          \E s \in Idx(log, "submit", "internal") :
            /\ s + 2 <= Len(log)
            /\ log[s + 1].ev = "faucet" /\ log[s + 1].path = "internal"
            /\ log[s + 1].ref = "aInt"
            /\ log[s + 2].ev = "fallback"
            /\ \A e \in Idx(log, "submit", "external") : e > s + 2)

\* the internal attempt submitted, its contract top-up raised, and the
\* external path submitted a second deployment transaction
C34_Witness ==
  /\ Idx(log, "submit", "internal") # {}
  /\ Idx(log, "fallback", "internal") # {}
  /\ Idx(log, "submit", "external") # {}

\* ------------------------------------------------------------------ C36
\* events of the external path that name an address: balance reads and faucet
\* requests of ensureAdequateFunding, code reads of waitForContractDeployment
ExternalAddressEvents ==
  {k \in 1..Len(log) :
     /\ log[k].path = "external"
     /\ log[k].ev \in {"balance", "balanceError", "faucet", "code", "codeError"}}

\* C36: in the external path the address that is funded by the faucet, the
\* address whose code waitForContractDeployment reads and the address in the
\* result of deployContract are all the destination of the deployment
\* transaction that is sent, and the code is read only after that transaction
\* was sent.
C36_OneExternalAddress ==
  /\ [](\A k \in ExternalAddressEvents : log[k].ref = deploymentTransaction.to)
  /\ []((path = "external" /\ pc \notin {"validate", "gas", "ext_start"})
          => contractAddress = deploymentTransaction.to)
  /\ []((path = "external" /\ result.kind \in {"success", "funding_issues"})
          => /\ result.address = deploymentTransaction.to
             /\ result.hash = deploymentTransaction.hash
             /\ Idx(log, "submit", "external") # {})
  /\ [](\A k \in Idx(log, "code", "external") \cup Idx(log, "codeError", "external") :
          \E s \in Idx(log, "submit", "external") :
            s < k /\ log[s].ref = deploymentTransaction.hash)

\* the internal attempt had set another address, the external path then
\* funded its own address by a faucet request, sent its transaction, read
\* code there and reported success
C36_Witness ==
  /\ Idx(log, "submit", "internal") # {}
  /\ Idx(log, "faucet", "external") # {}
  /\ Idx(log, "code", "external") # {}
  /\ path = "external"
  /\ result.kind = "success"

\* ------------------------------------------------------------------ C37
EafPcs == {"eaf_balance", "eaf_topup", "eaf_recheck", "eaf_delay"}
LastEvent(l) == l[Len(l)]

\* C37: ensureAdequateFunding never raises: every step of it stays inside it
\* or returns true or false to deployContractExternal; a faucet request or a
\* re-check read that raised counts the attempt and goes on with the next
\* amount, or returns false after the last one; an initial read that raised
\* returns false and no faucet request is made.
C37_FundingNeverRaises ==
  /\ [][(pc \in EafPcs) =>
          (/\ pc' \in EafPcs \cup {"ext_funded"}
           /\ result' = result
           /\ pc' = "ext_funded" => fundingSuccess' \in {"true", "false"})]_vars
  /\ [][(pc = "eaf_topup" /\ pc' # "eaf_recheck") =>
          (/\ i' = i + 1
           /\ IF i + 1 < Len(attempts(requiredAmount))
                THEN pc' = "eaf_topup"
                ELSE pc' = "ext_funded" /\ fundingSuccess' = "false")]_vars
  /\ [][(pc = "eaf_recheck" /\ LastEvent(log').ev = "balanceError") =>
          (/\ i' = i + 1
           /\ IF i + 1 < Len(attempts(requiredAmount))
                THEN pc' = "eaf_topup"
                ELSE pc' = "ext_funded" /\ fundingSuccess' = "false")]_vars
  /\ [][(pc = "eaf_balance" /\ LastEvent(log').ev = "balanceError") =>
          (pc' = "ext_funded" /\ fundingSuccess' = "false")]_vars
  /\ [](\A k \in Idx(log, "balanceError", "external") :
          log[k - 1].ev = "externalCall" =>
            /\ Idx(log, "faucet", "external") = {}
            /\ fundingSuccess = "false")

\* a faucet request was rejected, the next one went through but its re-check
\* read raised, and the third amount was requested
C37_Witness ==
  /\ Cardinality(Idx(log, "faucet", "external")) = 3
  /\ Cardinality(Idx(log, "balanceError", "external")) = 1
  /\ \E k \in Idx(log, "faucet", "external") :
       k + 1 \in Idx(log, "faucet", "external")

\* ------------------------------------------------------------------ C31
\* C31 as stated: every salt drawn, by a generateRandomSalt of a provider or
\* by a deployment script, is an integer in 0..9999.
C31_Original == saltDrawn # NoSalt => saltDrawn \in 0..(SaltLimit - 1)

\* ------------------------------------------------------------------ C35
\* state-changing transactions sent to the target contract by executeContractMethod
ExecSends == Idx(alog, "sendTransaction", "factory") \cup Idx(alog, "sendTransaction", "standard")

\* C35 as stated: one executeContractMethod invocation sends at most one
\* state-changing transaction to the target contract, also when the
\* contract-factory attempt for increment fails at any step and the standard
\* approach runs; it sends none when the code read at the address is empty.
C35_Original ==
  areq.op = "executeContractMethod" =>
    /\ Cardinality(ExecSends) <= 1
    /\ ares.kind = "no_contract" => ExecSends = {}

\* ------------------------------------------------------------------ C38
\* C38 as stated: createSmartAccount returns the 'deployed successfully'
\* result only if checkDeploymentStatus completed before the 30-second
\* timer; at most one extra faucet top-up is requested, and only after a
\* balance read below the minimum.
C38_Original ==
  treq.op = "createSmartAccount" =>
    /\ tres = "account_deployed" => deploymentSuccess = "true"
    /\ Cardinality(Idx(tlog, "faucet", "create")) <= 1
    /\ \A k \in Idx(tlog, "faucet", "create") :
         /\ k > 1
         /\ tlog[k - 1].ev = "balance"
         /\ tlog[k - 1].val < CreateMinBalance

\* ------------------------------------------------------------------ C32
\* C32: whatever getClient calls the actions of a provider make, in whatever
\* order, this.clients holds at most one client per shard id, an entry once
\* stored is never replaced or removed (every client ever constructed is
\* still stored), and each call returns the stored client of its shard,
\* constructing one only when the shard had none.
C32_ClientPerShard ==
  /\ [](\A e1 \in clientMap : \A e2 \in clientMap : e1.shard = e2.shard => e1 = e2)
  /\ [](Cardinality(clientMap) = created)
  /\ [][clientMap \subseteq clientMap']_vars
  /\ [][(returned' # returned /\ returned' # NoClient) =>
          (/\ returned' \in clientMap'
           /\ hasClient(returned'.shard) =>
                (returned' \in clientMap /\ clientMap' = clientMap /\ created' = created)
           /\ ~hasClient(returned'.shard) =>
                (created' = created + 1 /\ clientMap' = clientMap \cup {returned'}))]_vars

\* two clients were constructed by earlier actions and the third action of
\* the session was given the first of them again
C32_Witness ==
  /\ served = 3
  /\ created = 2
  /\ returned # NoClient
  /\ returned.client = 1

\* ------------------------------------------------------------------ C39
TransferOps == {"transferToken", "burnToken", "crossShardTransfer", "batchTransferTokens"}

\* transactions sent for the source account by the running transfer action
SourceSends ==
  {k \in 1..Len(tlog) :
     tlog[k].ev = "sendTransaction" /\ tlog[k].path \in {"transfer", "burn", "cross"}}
BatchSends == Idx(alog, "sendTransaction", "batch")

\* C39: transferToken, burnToken, crossShardTransfer and batchTransferTokens
\* send a transaction only from an account that this.accounts holds (stored
\* earlier in the session by createSmartAccount or mintToken) under the source
\* address; when it holds none they return an error text, send nothing, and
\* this.accounts stays as it was.
C39_KnownSourceOnly ==
  /\ [](treq.op \in TransferOps =>
          /\ \A k \in SourceSends :
               /\ hasAccount(tlog[k].ref)
               /\ tlog[k].ref = normalizeAddress(treq.address)
          /\ BatchSends # {} => hasAccount(normalizeAddress(treq.address)))
  /\ []((treq.op \in TransferOps /\ ~hasAccount(normalizeAddress(treq.address))) =>
          /\ SourceSends = {}
          /\ BatchSends = {}
          /\ tpc \in {"t_start", "x_start", "idle", "batch"}
          /\ tpc = "idle" => tres \in {"no_account", "cross_error"}
          /\ (tpc = "batch" /\ apc = "done") => ares.kind = "error")
  /\ []((treq.op \in {"transferToken", "burnToken"} /\ ~hasAccount(treq.address)) =>
          (tpc = "idle" => tres = "no_account"))
  /\ [][treq'.op \in TransferOps => accounts' = accounts]_vars

\* an account exists in the session, and a transfer named an address that
\* this.accounts does not hold: it returned the error text
C39_Witness ==
  /\ accounts # {}
  /\ treq.op = "transferToken"
  /\ treq.address = UnknownAddress
  /\ tres = "no_account"

\* ------------------------------------------------------------------ C33
IsExternalFaucet(e) == e.ev = "faucet" /\ e.path = "external"

\* what a request run alone shows in its own locals: the faucet amounts of the
\* external path are the schedule for its own fee credit, in order; at most
\* one submission on each path; the text returned is the one for its own
\* path, hash and address
AsAlone(l) ==
  /\ LET f == SelectSeq(l.log, IsExternalFaucet)
         own == FundingFactor * contractComplexityMultiplier(l.args.contractType) * l.gasPrice
     IN /\ Len(f) <= Len(attempts(own))
        /\ \A k \in 1..Len(f) : f[k].val = attempts(own)[k]
  /\ \A p \in Paths : Cardinality(Idx(l.log, "submit", p)) <= 1
  /\ \A k \in Idx(l.log, "submit", "external") : l.log[k].ref = l.hash
  /\ (l.pc = "done" /\ l.isDeployed # "none") =>
       l.result = ReportFor(l.path, l.isDeployed, l.hash, l.contractAddress)

\* C33: with two deployContract requests interleaved at their awaits, each
\* request's faucet amounts, submissions and returned text are those of a run
\* alone; a step of one request leaves the other's locals and every other
\* field of the program alone (the client map is the one thing both write),
\* and the waiting request resumes with the locals it was suspended with.
C33_RequestsIsolated ==
  /\ [](AsAlone(Locals) /\ AsAlone(other))
  /\ [][(cur' = cur) =>
          ( /\ other' = other
            /\ UNCHANGED <<cvars, sreq, derived, avars, gvars, kvars, pvars>> )]_vars
  /\ [][(cur' # cur) =>
          ( /\ Locals' = other
            /\ other' = Locals
            /\ UNCHANGED clients )]_vars

\* both requests are inside ensureAdequateFunding at once, each after a
\* faucet request of its own, with different required amounts, and both
\* shards' clients are in the map
C33_Witness ==
  /\ cur = 2
  /\ pc = "eaf_recheck" /\ other.pc = "eaf_recheck"
  /\ requiredAmount > 0 /\ other.requiredAmount > 0
  /\ requiredAmount # other.requiredAmount
  /\ clients = {PairFirst.shardId, PairSecond.shardId}

====
